---- MODULE Spec2Model ----
(***************************************************************************)
(* Model of the asynchronous Yellow Pages crawler                          *)
(* (src/ScrapersPre/GSscraper.py; GScraper.py is the same pipeline).       *)
(*                                                                         *)
(* Texts that the code strips, joins or matches are sequences of one-      *)
(* character strings; URLs, which the code only concatenates, are strings. *)
(* An optional value (Python's None) is a sequence of length 0 or 1.       *)
(***************************************************************************)
EXTENDS Integers, Sequences, FiniteSets, TLC

\* ------------------------------------------------------------------------
\* Bounds and program constants
\* ------------------------------------------------------------------------

\* number of listing pages yp_lists generates in the model
NumPages == 3

\* asyncio.Semaphore(CONCURRENT_REQUEST_LIMIT)
CONCURRENT_REQUEST_LIMIT == 2

\* longest category text tried on the category sanitisation
MaxLen == 3

\* largest semaphore size tried on termination
MaxLimit == 3

\* ------------------------------------------------------------------------
\* Python string operations used by the code
\* ------------------------------------------------------------------------

None == <<>>

Some(x) == <<x>>

UpperCase ==
  <<"A","B","C","D","E","F","G","H","I","J","K","L","M",
    "N","O","P","Q","R","S","T","U","V","W","X","Y","Z">>

LowerCase ==
  <<"a","b","c","d","e","f","g","h","i","j","k","l","m",
    "n","o","p","q","r","s","t","u","v","w","x","y","z">>

\* case folding of one character, as re.IGNORECASE compares
Lower(c) ==
  IF \E i \in 1..26 : UpperCase[i] = c
  THEN LowerCase[CHOOSE i \in 1..26 : UpperCase[i] = c]
  ELSE c

\* characters str.strip() removes
Whitespace == {" ", "\n", "\t"}

RECURSIVE lstrip(_)
lstrip(s) ==
  IF s # <<>> /\ Head(s) \in Whitespace THEN lstrip(Tail(s)) ELSE s

RECURSIVE rstrip(_)
rstrip(s) ==
  IF s # <<>> /\ s[Len(s)] \in Whitespace
  THEN rstrip(SubSeq(s, 1, Len(s) - 1))
  ELSE s

\* a strip that leaves the text as it is
strip_missing(s) == s

\* str.strip()
strip(s) == rstrip(lstrip(s))

\* ' '.join(texts)
RECURSIVE join(_)
join(texts) ==
  IF texts = <<>> THEN <<>>
  ELSE IF Len(texts) = 1 THEN texts[1]
  ELSE texts[1] \o <<" ">> \o join(Tail(texts))

\* s.startswith(prefix)
startswith(s, prefix) ==
  /\ Len(s) >= Len(prefix)
  /\ \A i \in 1..Len(prefix) : s[i] = prefix[i]

\* str.replace(old, ""): every non-overlapping occurrence, left to right
RECURSIVE replace(_, _)
replace(s, old) ==
  IF s = <<>> THEN <<>>
  ELSE IF startswith(s, old) THEN replace(SubSeq(s, Len(old) + 1, Len(s)), old)
  ELSE <<Head(s)>> \o replace(Tail(s), old)

\* re.sub('[chars]', "", s)
re_sub_class(chars, s) == SelectSeq(s, LAMBDA c : c \notin chars)

\* the literal of re.search("^No results found for.*", ..., re.IGNORECASE)
NoResultsLiteral ==
  <<"N","o"," ","r","e","s","u","l","t","s"," ",
    "f","o","u","n","d"," ","f","o","r">>

\* the same search without re.IGNORECASE
NoResultsMatch_cased(s) ==
  /\ Len(s) >= Len(NoResultsLiteral)
  /\ \A i \in 1..Len(NoResultsLiteral) : s[i] = NoResultsLiteral[i]

\* re.search("^No results found for.*", s, re.IGNORECASE) is not None:
\* "^" anchors at the start of the string, ".*" matches any rest (also none)
NoResultsMatch(s) ==
  /\ Len(s) >= Len(NoResultsLiteral)
  /\ \A i \in 1..Len(NoResultsLiteral) : Lower(s[i]) = Lower(NoResultsLiteral[i])

\* ------------------------------------------------------------------------
\* Exceptions
\* ------------------------------------------------------------------------

NoExc == "NoExc"

\* the base class of each exception class the code can meet
BaseOf ==
  [ClientResponseError |-> "ClientError",
   ClientError         |-> "Exception",
   TimeoutError        |-> "Exception",
   ParserError         |-> "Exception",
   KeyError            |-> "Exception",
   XPathEvalError      |-> "Exception",
   AttributeError      |-> "Exception",
   OSError             |-> "Exception",
   FileNotFoundError   |-> "OSError",
   PermissionError     |-> "OSError",
   IndexError          |-> "Exception",
   ImportError         |-> "Exception",
   Exception           |-> "BaseException",
   MemoryError         |-> "Exception",
   RuntimeError        |-> "Exception",
   ValueError          |-> "Exception",
   TypeError           |-> "Exception",
   RequestException    |-> "OSError",
   KeyboardInterrupt   |-> "BaseException"]

RECURSIVE IsSubclass(_, _)
IsSubclass(e, h) ==
  \/ e = h
  \/ e \in DOMAIN BaseOf /\ IsSubclass(BaseOf[e], h)

\* an exception is caught by a try statement with these except clauses
Caught(e, clauses) == \E h \in clauses : IsSubclass(e, h)

\* ------------------------------------------------------------------------
\* Parsed documents: what each selector's XPath yields on the page
\* ------------------------------------------------------------------------

NoAttrib == [href |-> None, class |-> None, src |-> None]

\* an element node, and a string node (the result of an attribute or text() XPath)
El(text, attrib) == [isstr |-> FALSE, s |-> "", text |-> text, attrib |-> attrib]

Str(s) == [isstr |-> TRUE, s |-> s, text |-> <<>>, attrib |-> NoAttrib]

\* el.get(attrib, default)
get(el, attrib, default) ==
  IF el.attrib[attrib] = None THEN default ELSE el.attrib[attrib][1]

\* f"https://www.yellowpages.com{...}" on a URL
Origin == "https://www.yellowpages.com"

\* the same prefix on a text
OriginText ==
  <<"h","t","t","p","s",":","/","/","w","w","w",".","y","e","l","l","o","w",
    "p","a","g","e","s",".","c","o","m">>

SelectorKeys ==
  {"categories", "business_urls", "page_content",
   "business_name", "contact", "email", "address", "map_and_direction",
   "review", "review_count", "images", "website"}

\* a selector table with every key present and every XPath valid
FullSelectors == [k \in SelectorKeys |-> "xpath"]

\* the table without one key
Without(key) == [k \in SelectorKeys \ {key} |-> "xpath"]

\* the exception tree.xpath(selectors[key]) raises, if any
XPathExc(selectors, key) ==
  IF key \notin DOMAIN selectors THEN "KeyError"
  ELSE IF selectors[key] = "invalid" THEN "XPathEvalError"
  ELSE NoExc

\* first exception in a sequence of outcomes, NoExc when there is none
RECURSIVE FirstExc(_)
FirstExc(excs) ==
  IF excs = <<>> THEN NoExc
  ELSE IF Head(excs) # NoExc THEN Head(excs)
  ELSE FirstExc(Tail(excs))

\* [el.text_content() for el in elements]
TextContents(elements) == [i \in 1..Len(elements) |-> elements[i].text]

\* exception of ' '.join(el.text_content() for el in elements): a string node
\* has no text_content
TextContentExc(elements) ==
  IF \E i \in 1..Len(elements) : elements[i].isstr THEN "AttributeError" ELSE NoExc

\* ------------------------------------------------------------------------
\* userAgents: the identity pool file user-agents.txt
\* ------------------------------------------------------------------------

\* the file is missing, cannot be read, or has these lines
PoolFile(state, lines) == [state |-> state, lines |-> lines]

\* the fixed identity userAgents falls back to
DefaultAgent ==
  "Mozilla/5.0 (Windows NT 10.0; Win64; x64) AppleWebKit/537.36 (KHTML, like Gecko) Chrome/91.0.4472.124 Safari/537.36"

\* [agent for agent in agents if agent]
NonEmptyAgents(file) == SelectSeq(file.lines, LAMBDA agent : agent # "")

\* what the try block of userAgents raises: open fails, or random.choice
\* is given an empty list
UserAgentsRaises(file) ==
  IF file.state = "missing" THEN "FileNotFoundError"
  ELSE IF file.state = "unreadable" THEN "PermissionError"
  ELSE IF NonEmptyAgents(file) = <<>> THEN "IndexError"
  ELSE NoExc

\* except clauses that cover the missing file only
UserAgentHandlers_notfound == {"FileNotFoundError"}

\* the except clauses of userAgents
UserAgentHandlers == {"FileNotFoundError", "Exception"}

\* the possible outcomes of userAgents(): exc is the exception that leaves
\* the function, agent the returned string
userAgents(file) ==
  LET e == UserAgentsRaises(file) IN
  IF e = NoExc
  THEN {[exc |-> NoExc, agent |-> NonEmptyAgents(file)[k]] :
          k \in DOMAIN NonEmptyAgents(file)}
  ELSE IF Caught(e, UserAgentHandlers)
  THEN {[exc |-> NoExc, agent |-> DefaultAgent]}
  ELSE {[exc |-> e, agent |-> ""]}

UsualPool == PoolFile("ok", <<"UA1">>)

\* the states of user-agents.txt a run may find
UserAgentFiles ==
  {PoolFile("missing", <<>>), PoolFile("unreadable", <<>>), PoolFile("ok", <<>>),
   PoolFile("ok", <<"">>), UsualPool, PoolFile("ok", <<"UA1", "", "UA2">>)}

\* ------------------------------------------------------------------------
\* fetch_and_parse
\* ------------------------------------------------------------------------

\* except clauses that forget the timeout and the catch-all
FetchHandlers_clientonly == {"ClientError"}

\* the except clauses of fetch_and_parse
FetchHandlers == {"ClientError", "TimeoutError", "Exception"}

\* a raise_for_status that rejects server errors only
FetchRaises_5xx(r) ==
  IF r.net # "ok" THEN r.net
  ELSE IF r.status >= 500 THEN "ClientResponseError"
  ELSE IF r.content = "" THEN NoExc
  ELSE IF r.parsed = None THEN "ParserError"
  ELSE NoExc

\* what the try block of fetch_and_parse raises on a server response r:
\* session.get fails, raise_for_status rejects the status, html.fromstring
\* cannot parse the body
FetchRaises(r) ==
  IF r.net # "ok" THEN r.net
  ELSE IF r.status >= 400 THEN "ClientResponseError"
  ELSE IF r.content = "" THEN NoExc
  ELSE IF r.parsed = None THEN "ParserError"
  ELSE NoExc

\* a fetch without the try: what is raised leaves the function
fetch_and_parse_notry(r) ==
  LET e == FetchRaises(r) IN
  IF e # NoExc THEN [exc |-> e, tree |-> None]
  ELSE IF r.content = "" THEN [exc |-> NoExc, tree |-> None]
  ELSE [exc |-> NoExc, tree |-> r.parsed]

\* exc: the exception that leaves the function; tree: the returned value
fetch_and_parse(r) ==
  LET e == FetchRaises(r) IN
  IF e # NoExc
  THEN [exc |-> IF Caught(e, FetchHandlers) THEN NoExc ELSE e, tree |-> None]
  ELSE IF r.content = "" THEN [exc |-> NoExc, tree |-> None]
  ELSE [exc |-> NoExc, tree |-> r.parsed]

\* ------------------------------------------------------------------------
\* get_business_urls_from_page: extraction from a parsed listing page
\* ------------------------------------------------------------------------

ListingHandlers == {"KeyError", "XPathEvalError", "Exception"}

\* category = ' '.join(...).strip() if category_elements, else None
ListingCategory(tree) ==
  IF tree.categories # <<>>
  THEN Some(strip(join(TextContents(tree.categories))))
  ELSE None

\* [f"https://www.yellowpages.com{link}" for link in raw_links if isinstance(link, str)]
BusinessLinks(raw_links) ==
  LET strs == SelectSeq(raw_links, LAMBDA n : n.isstr)
  IN  [i \in 1..Len(strs) |-> Origin \o strs[i].s]

\* page_content = ' '.join(...).strip()
PageContent(tree) == strip(join(TextContents(tree.page_content)))

\* The body of get_business_urls_from_page after a successful fetch.
\* flow: "noresults" (early return), "sleep" (reaches the trailing sleep),
\* "except" (an except clause ran); exc: an exception no clause caught.
ExtractListing(selectors, tree) ==
  LET eCat  == FirstExc(<<XPathExc(selectors, "categories"),
                          TextContentExc(tree.categories)>>)
      eUrls == XPathExc(selectors, "business_urls")
      ePage == FirstExc(<<XPathExc(selectors, "page_content"),
                          TextContentExc(tree.page_content)>>)
      cat   == ListingCategory(tree)
      links == BusinessLinks(tree.business_urls)
      Fail(e, l, c) == [links |-> l, category |-> c, flow |-> "except",
                        exc |-> IF Caught(e, ListingHandlers) THEN NoExc ELSE e]
  IN  IF eCat # NoExc THEN Fail(eCat, <<>>, None)
      ELSE IF eUrls # NoExc THEN Fail(eUrls, <<>>, cat)
      ELSE IF ePage # NoExc THEN Fail(ePage, links, cat)
      ELSE IF NoResultsMatch(PageContent(tree))
           THEN [links |-> <<>>, category |-> cat, flow |-> "noresults", exc |-> NoExc]
      ELSE [links |-> links, category |-> cat, flow |-> "sleep", exc |-> NoExc]

\* ------------------------------------------------------------------------
\* scrape_business_details: extraction from a parsed detail page
\* ------------------------------------------------------------------------

DetailHandlers == {"KeyError", "XPathEvalError", "Exception"}

safe_xpath_get_text(tree, key) ==
  IF tree[key] # <<>> THEN strip(join(TextContents(tree[key]))) ELSE <<>>

safe_xpath_get_text_exc(selectors, tree, key) ==
  FirstExc(<<XPathExc(selectors, key), TextContentExc(tree[key])>>)

safe_xpath_get_attrib(tree, key, attrib) ==
  IF tree[key] # <<>> THEN strip(get(tree[key][1], attrib, <<>>)) ELSE <<>>

safe_xpath_get_attrib_exc(selectors, tree, key) ==
  FirstExc(<<XPathExc(selectors, key),
             IF tree[key] # <<>> /\ tree[key][1].isstr THEN "AttributeError" ELSE NoExc>>)

DetailFields ==
  {"Business", "Contact", "Email", "Address", "Map and direction", "Review",
   "Review count", "Hyperlink", "Images", "Website"}

\* the details dict of scrape_business_details
Details(tree, business_url) ==
  [f \in DetailFields |->
     CASE f = "Business"  -> safe_xpath_get_text(tree, "business_name")
       [] f = "Contact"   -> safe_xpath_get_text(tree, "contact")
       [] f = "Email"     -> replace(safe_xpath_get_text(tree, "email"),
                                     <<"m","a","i","l","t","o",":">>)
       [] f = "Address"   -> safe_xpath_get_text(tree, "address")
       [] f = "Map and direction" ->
            OriginText \o safe_xpath_get_attrib(tree, "map_and_direction", "href")
       [] f = "Review"    -> replace(safe_xpath_get_attrib(tree, "review", "class"),
                                     <<"r","a","t","i","n","g","-","s","t","a","r","s"," ">>)
       [] f = "Review count" ->
            re_sub_class({"(", ")"}, safe_xpath_get_text(tree, "review_count"))
       [] f = "Hyperlink" -> business_url
       [] f = "Images"    -> safe_xpath_get_attrib(tree, "images", "src")
       [] f = "Website"   -> safe_xpath_get_attrib(tree, "website", "href")]

\* the first exception raised while the dict is built, in field order
DetailsExc(selectors, tree) ==
  FirstExc(<<safe_xpath_get_text_exc(selectors, tree, "business_name"),
             safe_xpath_get_text_exc(selectors, tree, "contact"),
             safe_xpath_get_text_exc(selectors, tree, "email"),
             safe_xpath_get_text_exc(selectors, tree, "address"),
             safe_xpath_get_attrib_exc(selectors, tree, "map_and_direction"),
             safe_xpath_get_attrib_exc(selectors, tree, "review"),
             safe_xpath_get_text_exc(selectors, tree, "review_count"),
             safe_xpath_get_attrib_exc(selectors, tree, "images"),
             safe_xpath_get_attrib_exc(selectors, tree, "website")>>)

\* The try block of scrape_business_details after a successful fetch.
\* flow: "sleep" (dict built, trailing sleep reached), "except" (return None
\* from an except clause); exc: an exception no clause caught.
ExtractDetails(selectors, tree, business_url) ==
  LET e == DetailsExc(selectors, tree) IN
  IF e # NoExc
  THEN [details |-> None, flow |-> "except",
        exc |-> IF Caught(e, DetailHandlers) THEN NoExc ELSE e]
  ELSE [details |-> Some(Details(tree, business_url)), flow |-> "sleep", exc |-> NoExc]

\* a return that does not look at the name
ReturnDetails_unchecked(details) == details

\* return details if details.get("Business") else None
ReturnDetails(details) ==
  IF details # None /\ details[1]["Business"] # <<>> THEN details ELSE None

\* ------------------------------------------------------------------------
\* The site: the responses a server may give
\* ------------------------------------------------------------------------

Text_Pizza == <<"P","i","z","z","a">>

Text_Cafe == <<"C","a","/","f","e">>

Text_Results == <<"R","e","s","u","l","t","s">>

Upper(c) ==
  IF \E i \in 1..26 : LowerCase[i] = c
  THEN UpperCase[CHOOSE i \in 1..26 : LowerCase[i] = c]
  ELSE c

\* "NO RESULTS FOUND FOR pizza"
Text_NoResults ==
  [i \in 1..Len(NoResultsLiteral) |-> Upper(NoResultsLiteral[i])]
    \o <<" ","p","i","z","z","a">>

Timeout == [net |-> "TimeoutError", status |-> 0, content |-> "", parsed |-> None]

ConnectionError == [net |-> "ClientError", status |-> 0, content |-> "", parsed |-> None]

Http500 == [net |-> "ok", status |-> 500, content |-> "<html>", parsed |-> None]

Unparsable == [net |-> "ok", status |-> 200, content |-> "<!-- -->", parsed |-> None]

Page(tree) == [net |-> "ok", status |-> 200, content |-> "<html>", parsed |-> Some(tree)]

\* a 200 response whose body is the empty string
EmptyBody == [net |-> "ok", status |-> 200, content |-> "", parsed |-> None]

\* a response of another status that carries the same HTML body
WithStatus(status, tree) == [Page(tree) EXCEPT !.status = status]

\* a results page: category "Pizza", /a referenced twice
Listing_Pizza ==
  [categories    |-> <<El(Text_Pizza, NoAttrib)>>,
   business_urls |-> <<Str("/a"), Str("/b"), Str("/a")>>,
   page_content  |-> <<El(Text_Results, NoAttrib)>>]

\* a "no results" page on which the URL selector still matches
Listing_NoResults ==
  [categories    |-> <<El(Text_Cafe, NoAttrib)>>,
   business_urls |-> <<Str("/c")>>,
   page_content  |-> <<El(<<"\n">>, NoAttrib), El(Text_NoResults, NoAttrib)>>]

\* a results page whose category is blank and whose URL selector also
\* yields an element
Listing_Blank ==
  [categories    |-> <<El(<<" ">>, NoAttrib)>>,
   business_urls |-> <<Str("/b"), El(<<>>, NoAttrib), Str("/c")>>,
   page_content  |-> <<>>]

\* a results page without category that mentions the phrase, not at the start
Listing_Mention ==
  [categories    |-> <<>>,
   business_urls |-> <<Str("/c")>>,
   page_content  |-> <<El(<<"x"," ">> \o NoResultsLiteral, NoAttrib)>>]

ListingResponses ==
  {Timeout, Http500, Page(Listing_Pizza), Page(Listing_NoResults),
   Page(Listing_Blank), Page(Listing_Mention),
   EmptyBody, WithStatus(301, Listing_Pizza), WithStatus(400, Listing_Pizza)}

Href(t) == [href |-> Some(t), class |-> None, src |-> None]

\* a detail page on which every selector matches
Detail_Full ==
  [business_name     |-> <<El(<<" ","J","o","e"," ">>, NoAttrib)>>,
   contact           |-> <<El(<<"5","5","5">>, NoAttrib)>>,
   email             |-> <<El(<<"m","a","i","l","t","o",":","j","@","x">>, NoAttrib)>>,
   address           |-> <<El(<<"1">>, NoAttrib), El(<<"M","a","i","n">>, NoAttrib)>>,
   map_and_direction |-> <<El(<<>>, Href(<<"/","m","a","p">>))>>,
   review            |-> <<El(<<>>, [href |-> None, src |-> None,
                              class |-> Some(<<"r","a","t","i","n","g","-","s","t","a","r","s"," ","f","o","u","r">>)])>>,
   review_count      |-> <<El(<<"(","7",")">>, NoAttrib)>>,
   images            |-> <<El(<<>>, [href |-> None, class |-> None, src |-> Some(<<"i",".","p","n","g">>)])>>,
   website           |-> <<El(<<>>, Href(<<"j",".","c","o","m">>)), El(<<>>, Href(<<"k">>))>>]

\* only the name selector matches
Detail_NameOnly ==
  [k \in DOMAIN Detail_Full |->
     IF k = "business_name" THEN <<El(<<"A","l">>, NoAttrib)>> ELSE <<>>]

\* the name selector matches nothing
Detail_NoName == [Detail_Full EXCEPT !.business_name = <<>>]

\* the name selector matches only whitespace
Detail_BlankName ==
  [Detail_Full EXCEPT !.business_name = <<El(<<" ">>, NoAttrib), El(<<"\n">>, NoAttrib)>>]

\* the name is there, the contact selector yields strings (no text_content)
Detail_StrContact == [Detail_Full EXCEPT !.contact = <<Str("555")>>]

DetailResponses ==
  {Timeout, ConnectionError, Http500, Unparsable,
   Page(Detail_Full), Page(Detail_NameOnly), Page(Detail_NoName),
   Page(Detail_BlankName), Page(Detail_StrContact), EmptyBody}

\* the selector tables a run may be started with
SelectorTables == {FullSelectors, Without("contact"), Without("page_content")}

\* ------------------------------------------------------------------------
\* run_scraper: state
\* ------------------------------------------------------------------------

\* ------------------------------------------------------------------------
\* src/Scraper.py: the synchronous scraper
\* ------------------------------------------------------------------------

\* pages requested by one call
max_pages == 2

\* most listings on one result page
MaxListings == 2

NA == "N/A"

Emails == {"joe@joes.example", "info@site.example"}

\* lines 13-16: the first e-mail address in the text, words standing for
\* the matches of the pattern
extract_email_from_text(text) ==
  LET found == {i \in DOMAIN text : text[i] \in Emails} IN
  IF found = {} THEN NA
  ELSE text[CHOOSE i \in found : \A j \in found : i <= j]

\* lines 18-34: what the site visit gives; every exception is 'N/A'
scrape_website_for_email == {NA, "info@site.example"}

\* a div.result: the elements find() gives (None when absent), the
\* attributes of the website link, and the words of its text
Result(name, phone, address, website, text) ==
  [name |-> name, phone |-> phone, address |-> address, website |-> website,
   text |-> text]

Result_Full ==
  Result(Some("Joe's"), Some("555-0100"), Some("1 Main St"),
         Some([href |-> Some("http://joes.example")]),
         <<"Joe's", "joe@joes.example">>)

Result_Bare == Result(None, None, None, None, <<>>)

\* a website link and no address in the text
Result_Site ==
  Result(Some("Ann's"), None, Some("2 Oak Ave"),
         Some([href |-> Some("http://anns.example")]), <<"Ann's">>)

\* a website link without an href attribute
Result_NoHref ==
  Result(Some("Bob's"), Some("555-0199"), None, Some([href |-> None]),
         <<"Bob's">>)

Results == {Result_Full, Result_Bare, Result_Site, Result_NoHref}

\* what one page gives: the browser or the wait fails before the listings
\* are read, the page is blocked or empty, or it has listings
PageOutcomes ==
  {[kind |-> "error", listings |-> <<>>], [kind |-> "blocked", listings |-> <<>>]}
  \cup {[kind |-> "results", listings |-> l] :
          l \in UNION {[1..n -> Results] : n \in 1..MaxListings}}

\* lines 50-58: the locals when the page loop is entered
EntryFrame ==
  [at |-> "page", page |-> 1, listings |-> <<>>,
   business_names |-> <<>>, phone_numbers |-> <<>>, addresses |-> <<>>,
   websites |-> <<>>, emails |-> <<>>, df |-> None, raised |-> NoExc]

\* lines 107-113: the handler of the page's try statement
PageHandlers == {"Exception"}

\* pd.DataFrame(dict of lists), line 125: the number of rows, ValueError
\* when the lists differ in length
DataFrame(columns) ==
  IF \A i, j \in DOMAIN columns : Len(columns[i]) = Len(columns[j])
  THEN [exc |-> NoExc, rows |-> Len(columns[1])]
  ELSE [exc |-> "ValueError", rows |-> 0]

\* ------------------------------------------------------------------------
\* src/ScrapersPre/yellow_pagesGPT.py: parse_listing
\* ------------------------------------------------------------------------

\* range(10), line 33
Attempts == 10

\* most v-cards on one result page
MaxCards == 3

\* ''.join(texts)
RECURSIVE concat(_)
concat(texts) ==
  IF texts = <<>> THEN <<>> ELSE Head(texts) \o concat(Tail(texts))

\* s.split(sep) for a separator of one character
RECURSIVE split(_, _)
split(s, sep) ==
  IF \A i \in DOMAIN s : s[i] # sep THEN <<s>>
  ELSE LET k == CHOOSE i \in DOMAIN s :
                  s[i] = sep /\ \A j \in 1..(i - 1) : s[j] # sep
       IN <<SubSeq(s, 1, k - 1)>> \o split(SubSeq(s, k + 1, Len(s)), sep)

\* the no-break space of ',\xa0'
Nbsp == "~"

\* a v-card: what XPATH_BUSINESS_NAME and XPATH_LOCALITY yield on it
Card(raw_business_name, raw_locality) ==
  [raw_business_name |-> raw_business_name, raw_locality |-> raw_locality]

\* the v-cards a page may hold
Cards ==
  {Card(<<<<"J">>>>, <<<<"A", ",", " ", "T", " ", "7">>>>),  \* locality "A, T 7"
   Card(<<<<"K">>>>, <<<<"A", ",", Nbsp>>>>),               \* "A" and ',\xa0'
   Card(<<<<"L">>>>, <<>>),                                 \* no locality element
   Card(<<>>, <<<<"A", ",", "B", ",", "C">>>>)}             \* locality "A,B,C"

\* lines 61-108: the record of one v-card, or the exception raised on it
business_details(results) ==
  LET business_name ==
        IF results.raw_business_name # <<>>
        THEN Some(strip(concat(results.raw_business_name))) ELSE None
      locality ==
        IF results.raw_locality # <<>>
        THEN Some(strip(replace(concat(results.raw_locality), <<",", Nbsp>>)))
        ELSE None
      parts == split(locality[1], ",")
      locality_parts == split(parts[2], " ")
  IN
  IF locality = None THEN [exc |-> "TypeError", details |-> None]
  ELSE IF \A i \in DOMAIN locality[1] : locality[1][i] # ","
  THEN [exc |-> NoExc,
        details |-> Some([business_name |-> business_name,
                          locality |-> locality[1],
                          region |-> <<>>, zipcode |-> <<>>])]
  ELSE IF Len(parts) # 2 THEN [exc |-> "ValueError", details |-> None]
  ELSE [exc |-> NoExc,
        details |-> Some([business_name |-> business_name,
                          locality |-> parts[1],
                          region |-> IF Len(locality_parts) > 1
                                     THEN locality_parts[1] ELSE <<>>,
                          zipcode |-> IF Len(locality_parts) > 1
                                      THEN locality_parts[Len(locality_parts)]
                                      ELSE <<>>])]

\* what requests.get gives: an exception, or a response with a status and
\* the v-cards of its page
GetOutcomes ==
  {[exc |-> "RequestException", status_code |-> 0, listings |-> <<>>]}
  \cup {[exc |-> NoExc, status_code |-> c, listings |-> <<>>] :
          c \in {404, 403, 500}}
  \cup {[exc |-> NoExc, status_code |-> 200, listings |-> l] :
          l \in UNION {[1..n -> Cards] : n \in 0..MaxCards}}

\* the except clause of the loop body, lines 120-122
AttemptHandlers == {"Exception"}

\* lines 18-33: the locals when the loop is entered
ListingFrame ==
  [at |-> "loop", retry |-> 0, gets |-> 0, failed |-> FALSE,
   listings |-> <<>>, scraped_results |-> <<>>, result |-> None]

VARIABLES
  SELECTORS,            \* the selector table loaded at import time
  ua_file,              \* user-agents.txt in the working directory
  headers,              \* the User-Agent values sent so far
  semaphore,            \* free permits of asyncio.Semaphore(CONCURRENT_REQUEST_LIMIT)
  pc,                   \* run_scraper: "discovery", "enrichment", "returned", "raised"
  tasks_get_urls,       \* the get_business_urls_from_page tasks, in page order
  tasks_scrape_details, \* the scrape_business_details tasks
  requests,             \* number of HTTP GETs issued, per URL
  all_business_urls,
  categories_found,
  category_name,
  sanitized_category,
  final_data,
  log,                  \* what run_scraper has logged
  dir_created,          \* OUTPUT_DIR exists
  files,                \* names of the files written into OUTPUT_DIR
  raw_refs,             \* number of references the listing pages returned
  exception,            \* the exception that left run_scraper, if any
  scrape_yellow_pages,  \* Scraper.py: the locals of scrape_yellow_pages
  parse_listing,        \* yellow_pagesGPT.py: the locals of parse_listing
  exit_status           \* the exit status of the process, None while it runs

vars ==
  <<SELECTORS, scrape_yellow_pages, parse_listing, ua_file, headers, semaphore, pc, tasks_get_urls, tasks_scrape_details, requests,
    all_business_urls, categories_found, category_name, sanitized_category,
    final_data, log, dir_created, files, raw_refs, exception, exit_status>>

start_url == "https://www.yellowpages.com/search?search_terms=pizza"

\* [f"{yp_url}&page={num}" for num in range(1, 10)], cut to NumPages pages
yp_lists(yp_url) == [num \in 1..NumPages |-> yp_url \o "&page=" \o ToString(num)]

Range(seq) == {seq[i] : i \in DOMAIN seq}

\* the order in which Python iterates over a set: some fixed order
RECURSIVE SetToSeq(_)
SetToSeq(S) ==
  IF S = {} THEN <<>>
  ELSE LET x == CHOOSE x \in S : TRUE IN <<x>> \o SetToSeq(S \ {x})

\* asyncio.create_task(get_business_urls_from_page(session, page_url, semaphore))
NewListingTask(page_url) ==
  [url |-> page_url, pc |-> "waiting", resp |-> None,
   links |-> <<>>, category |-> None, exc |-> NoExc]

\* asyncio.create_task(scrape_business_details(session, biz_url, semaphore))
NewDetailTask(biz_url) ==
  [url |-> biz_url, pc |-> "waiting", resp |-> None, details |-> None, exc |-> NoExc]

\* the state when run_scraper reaches its first gather, with a semaphore of
\* the given number of permits
InitWith(limit) ==
  /\ SELECTORS \in SelectorTables
  /\ ua_file \in UserAgentFiles
  /\ headers = {}
  /\ semaphore = limit
  /\ pc = "discovery"
  /\ tasks_get_urls =
       [i \in 1..NumPages |-> NewListingTask(yp_lists(start_url)[i])]
  /\ tasks_scrape_details = <<>>
  /\ requests = [u \in {} |-> 0]
  /\ all_business_urls = {}
  /\ categories_found = <<>>
  /\ category_name = <<>>
  /\ sanitized_category = <<>>
  /\ final_data = <<>>
  /\ log = {}
  /\ dir_created = FALSE
  /\ files = {}
  /\ raw_refs = 0
  /\ exception = NoExc
  /\ scrape_yellow_pages = EntryFrame
  /\ parse_listing = ListingFrame
  /\ exit_status = None

\* the run starts with a user-agents.txt of one identity
Init == InitWith(CONCURRENT_REQUEST_LIMIT) /\ ua_file = UsualPool

\* ------------------------------------------------------------------------
\* The tasks
\* ------------------------------------------------------------------------

\* an acquire that never waits
CanAcquire_unguarded(value) == TRUE

\* Semaphore.acquire returns at once only while a permit is free
CanAcquire(value) == value > 0

\* a guarded section that ends before the trailing sleep
Holding_nosleep(t) == t.pc \in {"delay", "request"}

\* a task is between __aenter__ and __aexit__ of "async with semaphore"
Holding(t) == t.pc \in {"delay", "request", "postsleep"}

Issue(req, url) ==
  IF url \in DOMAIN req THEN [req EXCEPT ![url] = @ + 1] ELSE req @@ (url :> 1)

\* get_business_urls_from_page from the response to its next suspension or return
ListingStep(t, r, selectors) ==
  LET f == fetch_and_parse(r) IN
  IF f.exc # NoExc
  THEN [t EXCEPT !.pc = "raised", !.resp = Some(r), !.exc = f.exc]
  ELSE IF f.tree = None
  THEN [t EXCEPT !.pc = "done", !.resp = Some(r), !.links = <<>>, !.category = None]
  ELSE LET x == ExtractListing(selectors, f.tree[1]) IN
       [t EXCEPT !.pc = IF x.exc # NoExc THEN "raised"
                        ELSE IF x.flow = "sleep" THEN "postsleep" ELSE "done",
                 !.resp = Some(r), !.links = x.links, !.category = x.category,
                 !.exc = x.exc]

\* scrape_business_details from the response to its next suspension or return
DetailStep(t, r, selectors) ==
  LET f == fetch_and_parse(r) IN
  IF f.exc # NoExc
  THEN [t EXCEPT !.pc = "raised", !.resp = Some(r), !.exc = f.exc]
  ELSE IF f.tree = None
  THEN [t EXCEPT !.pc = "done", !.resp = Some(r), !.details = None]
  ELSE LET x == ExtractDetails(selectors, f.tree[1], t.url) IN
       [t EXCEPT !.pc = IF x.exc # NoExc THEN "raised"
                        ELSE IF x.flow = "sleep" THEN "postsleep" ELSE "done",
                 !.resp = Some(r), !.details = x.details, !.exc = x.exc]

\* an exit from the guarded section that keeps the permit
Released_leaked(t, u, value) == value

\* the permits after a step that took the task from t to u
Released(t, u, value) ==
  IF Holding(t) /\ ~Holding(u) THEN value + 1 ELSE value

\* listing tasks that add their links to the shared set themselves
ListingUnchanged_shared ==
  /\ all_business_urls' =
       UNION {Range(tasks_get_urls'[i].links) : i \in DOMAIN tasks_get_urls'}
  /\ UNCHANGED <<SELECTORS, scrape_yellow_pages, parse_listing, ua_file, pc, tasks_scrape_details,
                 categories_found, category_name, sanitized_category, final_data,
                 log, dir_created, files, raw_refs, exception, exit_status>>

ListingUnchanged ==
  UNCHANGED <<SELECTORS, scrape_yellow_pages, parse_listing, ua_file, pc, tasks_scrape_details, all_business_urls,
              categories_found, category_name, sanitized_category, final_data,
              log, dir_created, files, raw_refs, exception, exit_status>>

DetailUnchanged ==
  UNCHANGED <<SELECTORS, scrape_yellow_pages, parse_listing, ua_file, pc, tasks_get_urls, all_business_urls,
              categories_found, category_name, sanitized_category, final_data,
              log, dir_created, files, raw_refs, exception, exit_status>>

\* The task after `headers = {'User-Agent': userAgents()}` with outcome o:
\* on to session.get, or, if userAgents raised inside the try of
\* fetch_and_parse, to the caller's `if tree is None: return`.
AfterUserAgents(t, o) ==
  IF o.exc = NoExc THEN [t EXCEPT !.pc = "request"]
  ELSE IF Caught(o.exc, FetchHandlers) THEN [t EXCEPT !.pc = "done"]
  ELSE [t EXCEPT !.pc = "raised", !.exc = o.exc]

\* session.get(url, headers=headers, ...) if the task u got that far
Sent(u, o) ==
  /\ requests' = IF u.pc = "request" THEN Issue(requests, u.url) ELSE requests
  /\ headers' = IF u.pc = "request" THEN headers \cup {o.agent} ELSE headers

\* async with semaphore: __aenter__
ListingAcquire(i) ==
  /\ pc = "discovery"
  /\ tasks_get_urls[i].pc = "waiting"
  /\ CanAcquire(semaphore)
  /\ semaphore' = semaphore - 1
  /\ tasks_get_urls' = [tasks_get_urls EXCEPT ![i].pc = "delay"]
  /\ UNCHANGED <<requests, headers>>
  /\ ListingUnchanged

\* fetch_and_parse: the sleep is over, session.get sends the request
ListingRequest(i) ==
  /\ pc = "discovery"
  /\ tasks_get_urls[i].pc = "delay"
  /\ \E o \in userAgents(ua_file) :
       LET u == AfterUserAgents(tasks_get_urls[i], o) IN
       /\ tasks_get_urls' = [tasks_get_urls EXCEPT ![i] = u]
       /\ Sent(u, o)
       /\ semaphore' = Released(tasks_get_urls[i], u, semaphore)
  /\ ListingUnchanged

\* the response (or the failure) arrives; the task runs on to its next await
ListingResponseFrom(i, responses) ==
  /\ pc = "discovery"
  /\ tasks_get_urls[i].pc = "request"
  /\ \E r \in responses :
       LET u == ListingStep(tasks_get_urls[i], r, SELECTORS) IN
       /\ tasks_get_urls' = [tasks_get_urls EXCEPT ![i] = u]
       /\ semaphore' = Released(tasks_get_urls[i], u, semaphore)
  /\ UNCHANGED <<requests, headers>>
  /\ ListingUnchanged

ListingResponse(i) == ListingResponseFrom(i, ListingResponses)

\* the trailing asyncio.sleep is over: return business_links, category
ListingWake(i) ==
  /\ pc = "discovery"
  /\ tasks_get_urls[i].pc = "postsleep"
  /\ tasks_get_urls' = [tasks_get_urls EXCEPT ![i].pc = "done"]
  /\ semaphore' = semaphore + 1
  /\ UNCHANGED <<requests, headers>>
  /\ ListingUnchanged

DetailAcquire(j) ==
  /\ pc = "enrichment"
  /\ tasks_scrape_details[j].pc = "waiting"
  /\ CanAcquire(semaphore)
  /\ semaphore' = semaphore - 1
  /\ tasks_scrape_details' = [tasks_scrape_details EXCEPT ![j].pc = "delay"]
  /\ UNCHANGED <<requests, headers>>
  /\ DetailUnchanged

DetailRequest(j) ==
  /\ pc = "enrichment"
  /\ tasks_scrape_details[j].pc = "delay"
  /\ \E o \in userAgents(ua_file) :
       LET u == AfterUserAgents(tasks_scrape_details[j], o) IN
       /\ tasks_scrape_details' = [tasks_scrape_details EXCEPT ![j] = u]
       /\ Sent(u, o)
       /\ semaphore' = Released(tasks_scrape_details[j], u, semaphore)
  /\ DetailUnchanged

DetailResponseFrom(j, responses) ==
  /\ pc = "enrichment"
  /\ tasks_scrape_details[j].pc = "request"
  /\ \E r \in responses :
       LET u == DetailStep(tasks_scrape_details[j], r, SELECTORS) IN
       /\ tasks_scrape_details' = [tasks_scrape_details EXCEPT ![j] = u]
       /\ semaphore' = Released(tasks_scrape_details[j], u, semaphore)
  /\ UNCHANGED <<requests, headers>>
  /\ DetailUnchanged

DetailResponse(j) == DetailResponseFrom(j, DetailResponses)

\* a return after the sleep that keeps the permit
DetailWake_keeps(j) ==
  /\ pc = "enrichment"
  /\ tasks_scrape_details[j].pc = "postsleep"
  /\ tasks_scrape_details' =
       [tasks_scrape_details EXCEPT ![j].pc = "done",
                                    ![j].details = ReturnDetails(@)]
  /\ UNCHANGED <<semaphore, requests, headers>>
  /\ DetailUnchanged

\* the trailing asyncio.sleep is over: return details if it has a name
DetailWake(j) ==
  /\ pc = "enrichment"
  /\ tasks_scrape_details[j].pc = "postsleep"
  /\ tasks_scrape_details' =
       [tasks_scrape_details EXCEPT ![j].pc = "done",
                                    ![j].details = ReturnDetails(@)]
  /\ semaphore' = semaphore + 1
  /\ UNCHANGED <<requests, headers>>
  /\ DetailUnchanged

\* ------------------------------------------------------------------------
\* run_scraper: the orchestrator
\* ------------------------------------------------------------------------

\* "Unknown_Category"
UnknownCategory ==
  <<"U","n","k","n","o","w","n","_","C","a","t","e","g","o","r","y">>

\* "General_Scrape"
GeneralScrape == <<"G","e","n","e","r","a","l","_","S","c","r","a","p","e">>

\* the character class of re.sub(r'[\\/*?:"<>|]', "", category_name)
UnsafeChars == {"\\", "/", "*", "?", ":", "\"", "<", ">", "|"}

\* a wait that leaves out the last task
GatherReady_butlast(tasks) ==
  \A i \in DOMAIN tasks : i < Len(tasks) => tasks[i].pc = "done"

\* a wait that resumes on the first finished task
GatherReady_first(tasks) ==
  \E i \in DOMAIN tasks : tasks[i].pc \in {"done", "raised"}

\* await asyncio.gather(*tasks) resumes when every task has finished, or as
\* soon as one task has raised
GatherReady(tasks) ==
  \/ \E i \in DOMAIN tasks : tasks[i].pc = "raised"
  \/ \A i \in DOMAIN tasks : tasks[i].pc = "done"

\* the exception gather raises into run_scraper
GatherExc(tasks) ==
  IF \E i \in DOMAIN tasks : tasks[i].pc = "raised"
  THEN tasks[CHOOSE i \in DOMAIN tasks : tasks[i].pc = "raised"].exc
  ELSE NoExc

\* return values handed over last task first
ResultsUrls_reversed(tasks) ==
  [i \in DOMAIN tasks |->
     [links    |-> tasks[Len(tasks) + 1 - i].links,
      category |-> tasks[Len(tasks) + 1 - i].category]]

\* results_urls: the tasks' return values, in the order the tasks were passed
ResultsUrls(tasks) ==
  [i \in DOMAIN tasks |-> [links |-> tasks[i].links, category |-> tasks[i].category]]

\* results_details
ResultsDetails(tasks) == [j \in DOMAIN tasks |-> tasks[j].details]

\* for ... in results_urls: if business_urls: all_business_urls.update(business_urls)
MergeUrls(results) == UNION {Range(results[i].links) : i \in DOMAIN results}

\* for ... in results_urls: if category and category not in categories_found: append
RECURSIVE CollectCategories(_, _)
CollectCategories(results, found) ==
  IF results = <<>> THEN found
  ELSE LET c == Head(results).category IN
       CollectCategories(Tail(results),
         IF c # None /\ c[1] # <<>> /\ c[1] \notin Range(found)
         THEN Append(found, c[1]) ELSE found)

\* the last category found instead of the first
CategoryName_last(found) ==
  IF found # <<>> THEN found[Len(found)] ELSE UnknownCategory

\* categories_found[0] if categories_found else "Unknown_Category"
CategoryName(found) == IF found # <<>> THEN found[1] ELSE UnknownCategory

\* a sanitisation without the fallback
Sanitize_nofallback(name) == strip(re_sub_class(UnsafeChars, name))

\* re.sub(...).strip(), then the "General_Scrape" fallback
Sanitize(name) ==
  LET sanitized == strip(re_sub_class(UnsafeChars, name))
  IN  IF sanitized = <<>> THEN GeneralScrape ELSE sanitized

RECURSIVE CountRefs(_)
CountRefs(results) ==
  IF results = <<>> THEN 0 ELSE Len(Head(results).links) + CountRefs(Tail(results))

\* a filter that loses the first record
FinalData_butfirst(results) ==
  LET kept == SelectSeq(results, LAMBDA d : d # None)
  IN  [k \in 1..(Len(kept) - 1) |-> kept[k + 1][1]]

\* [details for details in results_details if details is not None]
FinalData(results) ==
  LET kept == SelectSeq(results, LAMBDA d : d # None)
  IN  [k \in 1..Len(kept) |-> kept[k][1]]

\* one task per reference, duplicates included
RECURSIVE DetailTargets_list(_)
DetailTargets_list(results) ==
  IF results = <<>> THEN <<>>
  ELSE Head(results).links \o DetailTargets_list(Tail(results))

\* the URLs for which detail tasks are created: for biz_url in all_business_urls
DetailTargets(results) == SetToSeq(MergeUrls(results))

\* a run that goes on with an empty set
NoUrls_never(urls) == FALSE

\* if not all_business_urls: return
NoUrls(urls) == urls = {}

\* a run that exports an empty table
NoData_never(data) == FALSE

\* if not final_data: return
NoData(data) == data = <<>>

\* lines 258-285: gather returns, the results are merged, the category is
\* picked and the detail tasks are created.  The finished listing tasks and
\* results_urls are not used again and are dropped from the state.
\* categories: the categories_found list the loop over results_urls builds
GatherUrlsWith(categories) ==
  /\ pc = "discovery"
  /\ GatherReady(tasks_get_urls)
  /\ IF GatherExc(tasks_get_urls) # NoExc
     THEN /\ pc' = "raised"
          /\ exception' = GatherExc(tasks_get_urls)
          /\ UNCHANGED <<tasks_get_urls, tasks_scrape_details, all_business_urls,
                         categories_found, category_name, sanitized_category,
                         log, raw_refs>>
     ELSE LET results == ResultsUrls(tasks_get_urls)
              urls    == MergeUrls(results)
              order   == DetailTargets(results)
          IN  /\ all_business_urls' = urls
              /\ categories_found' = categories
              /\ raw_refs' = CountRefs(results)
              /\ tasks_get_urls' = <<>>
              /\ exception' = NoExc
              /\ IF NoUrls(urls)
                 THEN /\ log' = log \cup {"WARNING No business URLs found"}
                      /\ pc' = "returned"
                      /\ UNCHANGED <<category_name, sanitized_category,
                                     tasks_scrape_details>>
                 ELSE /\ category_name' = CategoryName(categories_found')
                      /\ sanitized_category' = Sanitize(category_name')
                      /\ tasks_scrape_details' =
                           [j \in 1..Len(order) |-> NewDetailTask(order[j])]
                      /\ pc' = "enrichment"
                      /\ UNCHANGED log
  /\ UNCHANGED <<SELECTORS, scrape_yellow_pages, parse_listing, ua_file, headers, semaphore, requests, final_data, dir_created, files,
                 exit_status>>

GatherUrls ==
  GatherUrlsWith(CollectCategories(ResultsUrls(tasks_get_urls), <<>>))

\* what can go wrong in the export step
ExportEnvs == {"ok", "mkdir_fails", "no_openpyxl", "write_fails"}

ExportRaises(env) ==
  CASE env = "mkdir_fails" -> "OSError"
    [] env = "no_openpyxl" -> "ImportError"
    [] env = "write_fails" -> "OSError"
    [] env = "interrupted" -> "KeyboardInterrupt"
    [] OTHER -> NoExc

\* an export guarded against the missing engine only
ExportHandlers_importonly == {"ImportError"}

\* the except clauses around the export
ExportHandlers == {"ImportError", "Exception"}

\* lines 285-308: gather returns, None results are dropped, the table is saved
\* in one of the environments envs
GatherDetailsWith(envs) ==
  /\ pc = "enrichment"
  /\ GatherReady(tasks_scrape_details)
  /\ IF GatherExc(tasks_scrape_details) # NoExc
     THEN /\ pc' = "raised"
          /\ exception' = GatherExc(tasks_scrape_details)
          /\ UNCHANGED <<final_data, log, dir_created, files>>
     ELSE LET data == FinalData(ResultsDetails(tasks_scrape_details)) IN
          /\ final_data' = data
          /\ IF NoData(data)
             THEN /\ log' = log \cup {"WARNING No business details"}
                  /\ pc' = "returned"
                  /\ exception' = NoExc
                  /\ UNCHANGED <<dir_created, files>>
             ELSE \E env \in envs :
                    LET e == ExportRaises(env)
                        output_file == sanitized_category \o <<".","x","l","s","x">>
                    IN
                    /\ dir_created' = (dir_created \/ env # "mkdir_fails")
                    /\ files' \in IF e = NoExc THEN {files \cup {output_file}}
                                   ELSE IF env = "interrupted"
                                        THEN {files, files \cup {output_file}}
                                        ELSE {files}
                    /\ log' = IF e = NoExc THEN log \cup {"INFO Data saved"}
                              ELSE IF Caught(e, ExportHandlers)
                                   THEN log \cup {"ERROR Failed to save"}
                                   ELSE log
                    /\ exception' = IF Caught(e, ExportHandlers) THEN NoExc ELSE e
                    /\ pc' = IF exception' = NoExc THEN "returned" ELSE "raised"
  /\ UNCHANGED <<SELECTORS, scrape_yellow_pages, parse_listing, ua_file, headers, semaphore, tasks_get_urls,
                 tasks_scrape_details, requests, all_business_urls,
                 categories_found, category_name, sanitized_category, raw_refs,
                 exit_status>>

GatherDetails == GatherDetailsWith(ExportEnvs)

Next ==
  \/ \E i \in DOMAIN tasks_get_urls : ListingAcquire(i)
  \/ \E i \in DOMAIN tasks_get_urls : ListingRequest(i)
  \/ \E i \in DOMAIN tasks_get_urls : ListingResponse(i)
  \/ \E i \in DOMAIN tasks_get_urls : ListingWake(i)
  \/ GatherUrls
  \/ \E j \in DOMAIN tasks_scrape_details : DetailAcquire(j)
  \/ \E j \in DOMAIN tasks_scrape_details : DetailRequest(j)
  \/ \E j \in DOMAIN tasks_scrape_details : DetailResponse(j)
  \/ \E j \in DOMAIN tasks_scrape_details : DetailWake(j)
  \/ GatherDetails

Spec == Init /\ [][Next]_vars

\* ------------------------------------------------------------------------
\* Runs over every short category text: the first listing page carries the
\* category and one business URL, the other pages time out
\* ------------------------------------------------------------------------

\* the nine characters the sanitisation removes, a letter and a blank
CategoryChars == UnsafeChars \cup {"a", " "}

CategoryTexts == UNION {[1..n -> CategoryChars] : n \in 0..MaxLen}

\* a results page with one category element of the given text
Listing_Category(text) ==
  [categories    |-> <<El(text, NoAttrib)>>,
   business_urls |-> <<Str("/a")>>,
   page_content  |-> <<>>]

CategoryPages == {Page(Listing_Category(text)) : text \in CategoryTexts}

CategoryResponse(i) ==
  ListingResponseFrom(i, IF i = 1 THEN CategoryPages ELSE {Timeout})

NextCategory ==
  \/ \E i \in DOMAIN tasks_get_urls : ListingAcquire(i)
  \/ \E i \in DOMAIN tasks_get_urls : ListingRequest(i)
  \/ \E i \in DOMAIN tasks_get_urls : CategoryResponse(i)
  \/ \E i \in DOMAIN tasks_get_urls : ListingWake(i)
  \/ GatherUrls
  \/ \E j \in DOMAIN tasks_scrape_details : DetailAcquire(j)
  \/ \E j \in DOMAIN tasks_scrape_details : DetailRequest(j)
  \/ \E j \in DOMAIN tasks_scrape_details : DetailResponse(j)
  \/ \E j \in DOMAIN tasks_scrape_details : DetailWake(j)
  \/ GatherDetails

\* the run starts with the complete selector table
InitCategory == Init /\ SELECTORS = FullSelectors

SpecCategory == InitCategory /\ [][NextCategory]_vars

\* ------------------------------------------------------------------------
\* The variant GScraper.py: the same pipeline with its own limit, a
\* fetch_and_parse that starts with the request, and categories collected
\* without the uniqueness test
\* ------------------------------------------------------------------------

G_CONCURRENT_REQUEST_LIMIT == 10

\* `SELECTORS = yaml_by_select('selectors')`, the complete table
G_Init ==
  /\ InitWith(G_CONCURRENT_REQUEST_LIMIT)
  /\ SELECTORS = FullSelectors
  /\ ua_file = UsualPool

\* async with semaphore, then fetch_and_parse: session.get is its first await
G_ListingFetch(i) ==
  /\ pc = "discovery"
  /\ tasks_get_urls[i].pc = "waiting"
  /\ CanAcquire(semaphore)
  /\ \E o \in userAgents(ua_file) :
       LET u == AfterUserAgents(tasks_get_urls[i], o) IN
       /\ tasks_get_urls' = [tasks_get_urls EXCEPT ![i] = u]
       /\ Sent(u, o)
       /\ semaphore' = IF Holding(u) THEN semaphore - 1 ELSE semaphore
  /\ ListingUnchanged

G_DetailFetch(j) ==
  /\ pc = "enrichment"
  /\ tasks_scrape_details[j].pc = "waiting"
  /\ CanAcquire(semaphore)
  /\ \E o \in userAgents(ua_file) :
       LET u == AfterUserAgents(tasks_scrape_details[j], o) IN
       /\ tasks_scrape_details' = [tasks_scrape_details EXCEPT ![j] = u]
       /\ Sent(u, o)
       /\ semaphore' = IF Holding(u) THEN semaphore - 1 ELSE semaphore
  /\ DetailUnchanged

\* if category: categories_found.append(category)
RECURSIVE G_CollectCategories(_, _)
G_CollectCategories(results, found) ==
  IF results = <<>> THEN found
  ELSE LET c == Head(results).category IN
       G_CollectCategories(Tail(results),
         IF c # None /\ c[1] # <<>> THEN Append(found, c[1]) ELSE found)

G_GatherUrls ==
  GatherUrlsWith(G_CollectCategories(ResultsUrls(tasks_get_urls), <<>>))

G_Next ==
  \/ \E i \in DOMAIN tasks_get_urls : G_ListingFetch(i)
  \/ \E i \in DOMAIN tasks_get_urls : ListingResponse(i)
  \/ \E i \in DOMAIN tasks_get_urls : ListingWake(i)
  \/ G_GatherUrls
  \/ \E j \in DOMAIN tasks_scrape_details : G_DetailFetch(j)
  \/ \E j \in DOMAIN tasks_scrape_details : DetailResponse(j)
  \/ \E j \in DOMAIN tasks_scrape_details : DetailWake(j)
  \/ GatherDetails

G_Spec == G_Init /\ [][G_Next]_vars

\* ------------------------------------------------------------------------
\* Runs under a fair scheduler, for every semaphore size up to MaxLimit:
\* each fetch returns a page or times out (timeout=20), each sleep ends,
\* and a free permit is given to a waiting task
\* ------------------------------------------------------------------------

InitLive ==
  /\ \E limit \in 1..MaxLimit : InitWith(limit)
  /\ SELECTORS = FullSelectors
  /\ ua_file = UsualPool

LiveListingResponse(i) ==
  ListingResponseFrom(i, {Timeout, Page(Listing_Pizza), Page(Listing_Blank)})

LiveDetailResponse(j) ==
  DetailResponseFrom(j, {Timeout, Page(Detail_Full), Page(Detail_NoName)})

NextLive ==
  \/ \E i \in DOMAIN tasks_get_urls : ListingAcquire(i)
  \/ \E i \in DOMAIN tasks_get_urls : ListingRequest(i)
  \/ \E i \in DOMAIN tasks_get_urls : LiveListingResponse(i)
  \/ \E i \in DOMAIN tasks_get_urls : ListingWake(i)
  \/ GatherUrls
  \/ \E j \in DOMAIN tasks_scrape_details : DetailAcquire(j)
  \/ \E j \in DOMAIN tasks_scrape_details : DetailRequest(j)
  \/ \E j \in DOMAIN tasks_scrape_details : LiveDetailResponse(j)
  \/ \E j \in DOMAIN tasks_scrape_details : DetailWake(j)
  \/ GatherDetails

Fairness ==
  /\ WF_vars(\E i \in DOMAIN tasks_get_urls : ListingAcquire(i))
  /\ WF_vars(\E i \in DOMAIN tasks_get_urls : ListingRequest(i))
  /\ WF_vars(\E i \in DOMAIN tasks_get_urls : LiveListingResponse(i))
  /\ WF_vars(\E i \in DOMAIN tasks_get_urls : ListingWake(i))
  /\ WF_vars(GatherUrls)
  /\ WF_vars(\E j \in DOMAIN tasks_scrape_details : DetailAcquire(j))
  /\ WF_vars(\E j \in DOMAIN tasks_scrape_details : DetailRequest(j))
  /\ WF_vars(\E j \in DOMAIN tasks_scrape_details : LiveDetailResponse(j))
  /\ WF_vars(\E j \in DOMAIN tasks_scrape_details : DetailWake(j))
  /\ WF_vars(GatherDetails)

SpecLive == InitLive /\ [][NextLive]_vars /\ Fairness

\* ------------------------------------------------------------------------
\* Runs over every state of user-agents.txt, with the complete selector
\* table and the same few responses
\* ------------------------------------------------------------------------

InitAgents == InitWith(CONCURRENT_REQUEST_LIMIT) /\ SELECTORS = FullSelectors

SpecAgents == InitAgents /\ [][NextLive]_vars

\* ------------------------------------------------------------------------
\* Runs on listing pages whose URL selector yields an absolute reference
\* ------------------------------------------------------------------------

\* references that are absolute URLs already
AbsoluteRefs == {Origin \o "/a"}

\* a results page that refers to the same business by path and by full URL
Listing_Absolute ==
  [categories    |-> <<El(Text_Pizza, NoAttrib)>>,
   business_urls |-> <<Str("/a"), Str(Origin \o "/a"), Str("/b")>>,
   page_content  |-> <<>>]

LinksListingResponse(i) ==
  ListingResponseFrom(i, {Timeout, Page(Listing_Pizza), Page(Listing_Absolute)})

NextLinks ==
  \/ \E i \in DOMAIN tasks_get_urls : ListingAcquire(i)
  \/ \E i \in DOMAIN tasks_get_urls : ListingRequest(i)
  \/ \E i \in DOMAIN tasks_get_urls : LinksListingResponse(i)
  \/ \E i \in DOMAIN tasks_get_urls : ListingWake(i)
  \/ GatherUrls
  \/ \E j \in DOMAIN tasks_scrape_details : DetailAcquire(j)
  \/ \E j \in DOMAIN tasks_scrape_details : DetailRequest(j)
  \/ \E j \in DOMAIN tasks_scrape_details : LiveDetailResponse(j)
  \/ \E j \in DOMAIN tasks_scrape_details : DetailWake(j)
  \/ GatherDetails

InitLinks == Init /\ SELECTORS = FullSelectors

SpecLinks == InitLinks /\ [][NextLinks]_vars

\* ------------------------------------------------------------------------
\* The entry point: asyncio.run(run_scraper(start_url)) in a try statement
\* ------------------------------------------------------------------------

\* errors that no try statement of run_scraper covers when they arise in its
\* own code between the awaits
UnexpectedErrors == {"MemoryError", "RuntimeError"}

\* An exception leaves run_scraper: Ctrl-C at any moment of a phase, or an
\* unexpected error while run_scraper itself runs after a gather.
\* asyncio.run cancels the tasks that are left before it re-raises.
Escape ==
  /\ pc \in {"discovery", "enrichment"}
  /\ \E e \in UnexpectedErrors \cup {"KeyboardInterrupt"} :
       /\ e \in UnexpectedErrors =>
            IF pc = "discovery" THEN GatherReady(tasks_get_urls)
            ELSE GatherReady(tasks_scrape_details)
       /\ exception' = e
  /\ pc' = "raised"
  /\ tasks_get_urls' = <<>>
  /\ tasks_scrape_details' = <<>>
  /\ UNCHANGED <<SELECTORS, scrape_yellow_pages, parse_listing, ua_file, headers, semaphore, requests, all_business_urls,
                 categories_found, category_name, sanitized_category,
                 final_data, log, dir_created, files, raw_refs, exit_status>>

\* the user's interrupt arrives while the table is being written
InterruptEnvs == {"interrupted"}

InterruptedExport == GatherDetailsWith(InterruptEnvs)

\* an entry point with the general clause only
MainClause_exceptiononly(e) ==
  IF IsSubclass(e, "Exception") THEN "Exception" ELSE NoExc

\* the except clause of the entry point that handles e, NoExc when none does
MainClause(e) ==
  IF IsSubclass(e, "KeyboardInterrupt") THEN "KeyboardInterrupt"
  ELSE IF IsSubclass(e, "Exception") THEN "Exception"
  ELSE NoExc

\* asyncio.run has returned or raised; the try statement ends and the
\* script runs off its last line. No clause calls sys.exit, so the status
\* is 0 unless no clause handles the exception.
EntryPoint ==
  /\ pc \in {"returned", "raised"}
  /\ exit_status = None
  /\ IF pc = "returned"
     THEN /\ exit_status' = Some(0)
          /\ UNCHANGED log
     ELSE CASE MainClause(exception) = "KeyboardInterrupt" ->
                 /\ log' = log \cup {"INFO Scraping interrupted by user"}
                 /\ exit_status' = Some(0)
            [] MainClause(exception) = "Exception" ->
                 /\ log' = log \cup {"CRITICAL An unhandled error occurred"}
                 /\ exit_status' = Some(0)
            [] OTHER ->
                 /\ exit_status' = Some(1)
                 /\ UNCHANGED log
  /\ UNCHANGED <<SELECTORS, scrape_yellow_pages, parse_listing, ua_file, headers, semaphore, pc, tasks_get_urls, tasks_scrape_details,
                 requests, all_business_urls, categories_found, category_name,
                 sanitized_category, final_data, dir_created, files, raw_refs,
                 exception>>

NextMain ==
  \/ Next
  \/ Escape
  \/ InterruptedExport
  \/ EntryPoint

SpecMain == Init /\ [][NextMain]_vars

\* ------------------------------------------------------------------------
\* src/Scraper.py: scrape_yellow_pages
\* ------------------------------------------------------------------------

CrawlerIdle ==
  UNCHANGED <<SELECTORS, parse_listing, ua_file, headers, semaphore, pc, tasks_get_urls,
              tasks_scrape_details, requests, all_business_urls,
              categories_found, category_name, sanitized_category, final_data,
              log, dir_created, files, raw_refs, exception, exit_status>>

\* lines 58-83: the page is loaded; a failure and a blocked or empty page
\* end the iteration
PageIteration ==
  LET f == scrape_yellow_pages IN
  /\ f.at = "page"
  /\ f.page <= max_pages
  /\ \E out \in PageOutcomes :
       scrape_yellow_pages' =
         IF out.kind = "results"
         THEN [f EXCEPT !.at = "listing", !.listings = out.listings]
         ELSE [f EXCEPT !.page = f.page + 1]
  /\ CrawlerIdle

\* the first three columns after lines 85-92
TextOrNA(x) == IF x = None THEN NA ELSE x[1]

\* lines 84-113: one listing. website['href'] raises KeyError when the link
\* has no href, after three columns were appended; the page's handler
\* catches it and the loop goes to the next page.
ListingIteration ==
  LET f == scrape_yellow_pages
      listing == Head(f.listings)
      started == [f EXCEPT
                    !.business_names = Append(@, TextOrNA(listing.name)),
                    !.phone_numbers = Append(@, TextOrNA(listing.phone)),
                    !.addresses = Append(@, TextOrNA(listing.address))]
      exc == IF listing.website # None /\ listing.website[1].href = None
             THEN "KeyError" ELSE NoExc
      website_url == IF listing.website = None THEN NA
                     ELSE listing.website[1].href[1]
      inText == extract_email_from_text(listing.text)
  IN
  /\ f.at = "listing"
  /\ IF exc # NoExc
     THEN scrape_yellow_pages' =
            IF Caught(exc, PageHandlers)
            THEN [started EXCEPT !.at = "page", !.page = f.page + 1,
                                 !.listings = <<>>]
            ELSE [started EXCEPT !.at = "raised", !.raised = exc]
     ELSE \E email \in IF inText = NA /\ website_url # NA
                        THEN scrape_website_for_email ELSE {inText} :
            LET done == [started EXCEPT
                           !.websites = Append(@, website_url),
                           !.emails = Append(@, email),
                           !.listings = Tail(f.listings)]
            IN scrape_yellow_pages' =
                 IF done.listings = <<>>
                 THEN [done EXCEPT !.at = "page", !.page = f.page + 1]
                 ELSE done
  /\ CrawlerIdle

\* lines 115-132: the table is built from the five lists and saved
BuildTable ==
  LET f == scrape_yellow_pages
      df == DataFrame(<<f.business_names, f.phone_numbers, f.addresses,
                        f.websites, f.emails>>)
  IN
  /\ f.at = "page"
  /\ f.page > max_pages
  /\ scrape_yellow_pages' =
       IF df.exc = NoExc
       THEN [f EXCEPT !.at = "returned", !.df = Some(df.rows)]
       ELSE [f EXCEPT !.at = "raised", !.raised = df.exc]
  /\ CrawlerIdle

NextScraper ==
  \/ PageIteration
  \/ ListingIteration
  \/ BuildTable

SpecScraper == Init /\ [][NextScraper]_vars

\* ------------------------------------------------------------------------
\* src/ScrapersPre/yellow_pagesGPT.py: parse_listing
\* ------------------------------------------------------------------------

OthersIdle ==
  UNCHANGED <<SELECTORS, scrape_yellow_pages, ua_file, headers, semaphore, pc,
              tasks_get_urls, tasks_scrape_details, requests,
              all_business_urls, categories_found, category_name,
              sanitized_category, final_data, log, dir_created, files,
              raw_refs, exception, exit_status>>

\* `return value` out of the loop; failed tells a failed attempt from a
\* page that was parsed
Return(f, value, failed) ==
  [f EXCEPT !.at = "returned", !.result = Some(value), !.failed = failed,
            !.listings = <<>>]

\* lines 33-43 and 112-122: one pass of the loop body up to the listings.
\* Every branch of the body ends in a return; after range(10) is used up
\* the function would fall off its end.
Attempt ==
  LET f == parse_listing IN
  /\ f.at = "loop"
  /\ IF f.retry >= Attempts
     THEN parse_listing' = [f EXCEPT !.at = "returned"]
     ELSE \E out \in GetOutcomes :
            LET g == [f EXCEPT !.gets = f.gets + 1] IN
            parse_listing' =
              IF out.exc # NoExc
              THEN IF Caught(out.exc, AttemptHandlers)
                   THEN Return(g, <<>>, TRUE)
                   ELSE [g EXCEPT !.at = "raised"]
              ELSE IF out.status_code = 200
              THEN [g EXCEPT !.at = "cards", !.listings = out.listings]
              ELSE Return(g, <<>>, TRUE)
  /\ OthersIdle

\* lines 46-110 and 120-122: one v-card, or the return after the last
ParseCard ==
  LET f == parse_listing
      d == business_details(Head(f.listings))
  IN
  /\ f.at = "cards"
  /\ parse_listing' =
       IF f.listings = <<>> THEN Return(f, f.scraped_results, FALSE)
       ELSE IF d.exc # NoExc
       THEN IF Caught(d.exc, AttemptHandlers)
            THEN Return(f, <<>>, TRUE)
            ELSE [f EXCEPT !.at = "raised"]
       ELSE [f EXCEPT !.scraped_results = Append(@, d.details[1]),
                      !.listings = Tail(@)]
  /\ OthersIdle

NextListing ==
  \/ Attempt
  \/ ParseCard

InitListing == Init /\ SELECTORS = FullSelectors

SpecListing == InitListing /\ [][NextListing]_vars

\* ------------------------------------------------------------------------
\* Properties
\* ------------------------------------------------------------------------

\* the tasks inside "async with semaphore"
Holders(tasks) == {i \in DOMAIN tasks : Holding(tasks[i])}

InFlight == Cardinality(Holders(tasks_get_urls)) + Cardinality(Holders(tasks_scrape_details))

ListingUrls == Range(yp_lists(start_url))

\* number of GETs issued for a URL
Requested(url) == IF url \in DOMAIN requests THEN requests[url] ELSE 0

\* C1: in every reachable state, in the discovery phase, in the enrichment
\* phase and between them, at most CONCURRENT_REQUEST_LIMIT tasks have
\* acquired the semaphore and not yet released it.
C1_ConcurrencyBound == InFlight <= CONCURRENT_REQUEST_LIMIT

\* more detail tasks than permits, the limit reached and a task kept waiting
C1_Witness ==
  /\ pc = "enrichment"
  /\ Len(tasks_scrape_details) > CONCURRENT_REQUEST_LIMIT
  /\ InFlight = CONCURRENT_REQUEST_LIMIT
  /\ \E j \in DOMAIN tasks_scrape_details : tasks_scrape_details[j].pc = "waiting"
  /\ \E j \in DOMAIN tasks_scrape_details : tasks_scrape_details[j].pc = "request"

\* C2: no detail URL is requested more than once in a run: every URL of the
\* merged set has exactly one scrape_business_details task, no URL ever has
\* two GETs, and when the run has gone through enrichment every URL of the
\* set has had exactly one GET, however many times the pages returned it.
C2_FetchedOnce ==
  /\ \A u \in DOMAIN requests : requests[u] <= 1
  /\ pc = "enrichment" =>
       \A u \in all_business_urls :
         Cardinality({j \in DOMAIN tasks_scrape_details :
                        tasks_scrape_details[j].url = u}) = 1
  /\ \A j \in DOMAIN tasks_scrape_details :
       tasks_scrape_details[j].url \in all_business_urls
  /\ (pc = "returned" /\ all_business_urls # {}) =>
       \A u \in all_business_urls : Requested(u) = 1

\* the pages returned more references than there are distinct URLs, and the
\* run is over
C2_Witness ==
  /\ pc = "returned"
  /\ raw_refs > Cardinality(all_business_urls)
  /\ Cardinality(all_business_urls) >= 2
  /\ \A u \in all_business_urls : Requested(u) = 1

\* C3: no detail fetch is issued before every discovery task has completed
\* and the merge (URL set, category) is done: the detail tasks are created
\* in a step that finds every listing task finished, and every step that
\* sends a detail request is taken in the enrichment phase, for a URL of the
\* merged set, with the category chosen and no listing task left.
C3_PhaseBarrier ==
  [][ /\ (tasks_scrape_details = <<>> /\ tasks_scrape_details' # <<>>) =>
           /\ \A i \in DOMAIN tasks_get_urls : tasks_get_urls[i].pc = "done"
           /\ all_business_urls' = {tasks_scrape_details'[j].url :
                                      j \in DOMAIN tasks_scrape_details'}
           /\ category_name' # <<>>
      /\ \A u \in DOMAIN requests' :
           (u \notin ListingUrls /\ Requested(u) < requests'[u]) =>
             /\ pc = "enrichment"
             /\ u \in all_business_urls
             /\ category_name # <<>>
             /\ \A i \in DOMAIN tasks_get_urls : tasks_get_urls[i].pc = "done"
    ]_vars

\* a detail request is out
C3_Witness ==
  /\ pc = "enrichment"
  /\ \E j \in DOMAIN tasks_scrape_details : tasks_scrape_details[j].pc = "request"
  /\ \E u \in all_business_urls : Requested(u) = 1

\* the detail task got a parsed page
Fetched(t) ==
  /\ t.resp # None
  /\ t.resp[1].net = "ok"
  /\ t.resp[1].status < 400
  /\ t.resp[1].content # ""
  /\ t.resp[1].parsed # None

TreeOf(t) == t.resp[1].parsed[1]

\* the business name extracted from the task's page
NameOf(t) == safe_xpath_get_text(TreeOf(t), "business_name")

NameExtracted(t) ==
  /\ safe_xpath_get_text_exc(SELECTORS, TreeOf(t), "business_name") = NoExc
  /\ NameOf(t) # <<>>

\* final_data holds a record for the URL
Exported(url) == \E k \in DOMAIN final_data : final_data[k]["Hyperlink"] = url

\* run_scraper has returned after an enrichment phase
RunDone == pc = "returned" /\ tasks_scrape_details # <<>>

\* C4 as claimed: of the pages fetched successfully, exactly those whose
\* name extracts non-empty are in the final data, whatever the other
\* selectors do.
C4_AsClaimed ==
  RunDone =>
    \A j \in DOMAIN tasks_scrape_details :
      LET t == tasks_scrape_details[j] IN
      Fetched(t) => (Exported(t.url) <=> NameExtracted(t))

\* C4, amended: of the pages fetched successfully, exactly those are in the
\* final data whose name extracts non-empty and on which no selector of any
\* field raises (missing key, invalid XPath, a node without text or
\* attributes); a selector that merely matches nothing does not keep the
\* record out.
C4_ExportedIffNameAndNoSelectorError ==
  RunDone =>
    \A j \in DOMAIN tasks_scrape_details :
      LET t == tasks_scrape_details[j] IN
      Fetched(t) =>
        (Exported(t.url) <=>
           (NameExtracted(t) /\ DetailsExc(SELECTORS, TreeOf(t)) = NoExc))

\* a page with a name and no other field is exported, a page with a name and
\* a failing contact selector is not
C4_Witness ==
  /\ RunDone
  /\ \E j \in DOMAIN tasks_scrape_details :
       LET t == tasks_scrape_details[j] IN
       /\ Fetched(t) /\ NameExtracted(t)
       /\ TreeOf(t).contact = <<>>
       /\ Exported(t.url)
  /\ \E j \in DOMAIN tasks_scrape_details :
       LET t == tasks_scrape_details[j] IN
       /\ Fetched(t) /\ NameExtracted(t)
       /\ DetailsExc(SELECTORS, TreeOf(t)) # NoExc
       /\ ~Exported(t.url)

\* the text of every node the name selector matched is whitespace
NameBlank(tree) ==
  \A n \in DOMAIN tree.business_name :
    \A c \in DOMAIN tree.business_name[n].text :
      tree.business_name[n].text[c] \in Whitespace

\* C5: every record a scrape_business_details task returned, and every
\* record of final_data, has a non-empty "Business"; a page whose name
\* selector matches nothing, or only whitespace, yields None.
C5_RecordsHaveName ==
  /\ \A j \in DOMAIN tasks_scrape_details :
       LET t == tasks_scrape_details[j] IN
       t.pc = "done" =>
         /\ t.details # None => t.details[1]["Business"] # <<>>
         /\ (Fetched(t) /\ NameBlank(TreeOf(t))) => t.details = None
  /\ \A k \in DOMAIN final_data : final_data[k]["Business"] # <<>>

\* a page whose name nodes hold only whitespace has been dropped, beside a
\* page that gave a record
C5_Witness ==
  /\ RunDone
  /\ final_data # <<>>
  /\ \E j \in DOMAIN tasks_scrape_details :
       LET t == tasks_scrape_details[j] IN
       /\ Fetched(t)
       /\ TreeOf(t).business_name # <<>>
       /\ NameBlank(TreeOf(t))
       /\ DetailsExc(SELECTORS, TreeOf(t)) = NoExc
       /\ t.details = None

\* the detail task fails: no page, a selector error, or no name
DetailFails(t) ==
  \/ ~Fetched(t)
  \/ DetailsExc(SELECTORS, TreeOf(t)) # NoExc
  \/ NameOf(t) = <<>>

FailedTasks == {j \in DOMAIN tasks_scrape_details : DetailFails(tasks_scrape_details[j])}

\* C6: no exception leaves a detail task or reaches run_scraper, and when
\* exactly one of the N detail tasks fails (timeout, network error, HTTP 500,
\* unparsable body, selector error, missing name) the phase collects exactly
\* N-1 records: every other task has finished with its record, and that
\* record is in final_data.
C6_FailureIsolation ==
  /\ \A j \in DOMAIN tasks_scrape_details : tasks_scrape_details[j].pc # "raised"
  /\ tasks_scrape_details # <<>> => (pc # "raised" /\ exception = NoExc)
  /\ (RunDone /\ Cardinality(FailedTasks) = 1) =>
       /\ Len(final_data) = Len(tasks_scrape_details) - 1
       /\ \A j \in DOMAIN tasks_scrape_details \ FailedTasks :
            LET t == tasks_scrape_details[j] IN
            /\ t.pc = "done"
            /\ t.details # None
            /\ \E k \in DOMAIN final_data : final_data[k] = t.details[1]

\* three detail tasks, one timed out, two records
C6_Witness ==
  /\ RunDone
  /\ Len(tasks_scrape_details) = 3
  /\ Cardinality(FailedTasks) = 1
  /\ \E j \in FailedTasks : tasks_scrape_details[j].resp = Some(Timeout)
  /\ Len(final_data) = 2

\* "no results found for"
NoResultsLower ==
  <<"n","o"," ","r","e","s","u","l","t","s"," ",
    "f","o","u","n","d"," ","f","o","r">>

\* the listing task got a page whose page-content text starts with
\* "No results found for" in some letter case
NoResultsPage(t) ==
  /\ Fetched(t)
  /\ XPathExc(SELECTORS, "page_content") = NoExc
  /\ TextContentExc(TreeOf(t).page_content) = NoExc
  /\ LET text == PageContent(TreeOf(t)) IN
     /\ Len(text) >= Len(NoResultsLower)
     /\ [i \in 1..Len(NoResultsLower) |-> Lower(text[i])] = NoResultsLower

\* the URLs on the pages that are not "no results" pages
UrlsOfResultPages ==
  UNION {Range(BusinessLinks(TreeOf(tasks_get_urls[i]).business_urls)) :
           i \in {n \in DOMAIN tasks_get_urls :
                    Fetched(tasks_get_urls[n]) /\ ~NoResultsPage(tasks_get_urls[n])}}

\* C7: a listing task whose page-content text starts with "No results found
\* for", in any letter case, returns an empty URL list whatever the URL
\* selector matched, and the merged set holds no URL that only such pages
\* carry.
C7_NoResultsNoUrls ==
  /\ [](\A i \in DOMAIN tasks_get_urls :
          LET t == tasks_get_urls[i] IN
          (t.pc \in {"postsleep", "done"} /\ NoResultsPage(t)) =>
            (t.pc = "done" /\ t.links = <<>>))
  /\ [][(pc = "discovery" /\ pc' # "discovery") =>
          all_business_urls' \subseteq UrlsOfResultPages]_vars

\* every listing task has returned; one page says "NO RESULTS FOUND FOR" and
\* has a URL match, another page gave URLs
C7_Witness ==
  /\ pc = "discovery"
  /\ \A i \in DOMAIN tasks_get_urls : tasks_get_urls[i].pc = "done"
  /\ \E i \in DOMAIN tasks_get_urls :
       LET t == tasks_get_urls[i] IN
       /\ NoResultsPage(t)
       /\ ~startswith(PageContent(TreeOf(t)), NoResultsLiteral)
       /\ BusinessLinks(TreeOf(t).business_urls) # <<>>
       /\ t.links = <<>>
  /\ \E i \in DOMAIN tasks_get_urls : tasks_get_urls[i].links # <<>>

\* C8: when the merged URL set is empty after discovery, run_scraper has
\* returned without an exception and with the warning logged: no detail task
\* exists, no URL other than the listing pages was ever requested, the
\* output directory is not created and no file is written.
C8_NoUrlsEndsRun ==
  (pc # "discovery" /\ all_business_urls = {}) =>
    /\ pc = "returned"
    /\ exception = NoExc
    /\ "WARNING No business URLs found" \in log
    /\ tasks_scrape_details = <<>>
    /\ DOMAIN requests \subseteq ListingUrls
    /\ ~dir_created
    /\ files = {}

\* every listing page was requested and the run ended with no URL
C8_Witness ==
  /\ pc = "returned"
  /\ all_business_urls = {}
  /\ \A u \in ListingUrls : Requested(u) = 1
  /\ "WARNING No business URLs found" \in log

\* C9: when every detail task returned None, run_scraper has returned
\* without an exception, the output directory is not created and no file is
\* written; the directory is created or a file written only when final_data
\* holds at least one record.
C9_NoRecordsNoExport ==
  /\ (RunDone /\ \A j \in DOMAIN tasks_scrape_details :
                   tasks_scrape_details[j].details = None) =>
       /\ exception = NoExc
       /\ "WARNING No business details" \in log
       /\ ~dir_created
       /\ files = {}
  /\ (dir_created \/ files # {}) => final_data # <<>>

\* several detail pages were requested and none gave a record
C9_Witness ==
  /\ RunDone
  /\ Len(tasks_scrape_details) >= 2
  /\ \A j \in DOMAIN tasks_scrape_details :
       /\ Requested(tasks_scrape_details[j].url) = 1
       /\ tasks_scrape_details[j].details = None
  /\ files = {}

\* the pages, by index, that returned a non-empty category
PagesWithCategory ==
  {i \in DOMAIN tasks_get_urls :
     /\ tasks_get_urls[i].category # None
     /\ tasks_get_urls[i].category[1] # <<>>}

\* the category of the lowest such page, or the fallback label
FirstCategoryInPageOrder ==
  IF PagesWithCategory = {} THEN UnknownCategory
  ELSE tasks_get_urls[CHOOSE i \in PagesWithCategory :
                        \A k \in PagesWithCategory : i <= k].category[1]

\* C10: the category run_scraper chooses is the first non-empty category of
\* the listing results in page order, whatever the order in which the tasks
\* finished, and "Unknown_Category" when no page gave one.
C10_FirstCategoryInPageOrder ==
  [][(pc = "discovery" /\ pc' = "enrichment") =>
       category_name' = FirstCategoryInPageOrder]_vars

\* two different categories were found and the first one was chosen
C10_Witness ==
  /\ pc = "enrichment"
  /\ Len(categories_found) >= 2
  /\ category_name = categories_found[1]
  /\ category_name # categories_found[2]


\* the tasks of the phase run_scraper is in
PhaseTasks ==
  IF pc = "discovery" THEN tasks_get_urls
  ELSE IF pc = "enrichment" THEN tasks_scrape_details
  ELSE <<>>

\* C11: the tasks of a phase are all created in one step, before any result
\* is looked at (while the phase lasts no task is added and the merged
\* results do not change), and the step in which gather returns and the
\* phase ends finds every task of the phase finished; a step in which one
\* task finishes, with or without a result, leaves run_scraper in the phase.
C11_WaitForAll ==
  [][ /\ (pc \in {"discovery", "enrichment"} /\ pc' = pc) =>
           /\ Len(PhaseTasks') = Len(PhaseTasks)
           /\ UNCHANGED <<all_business_urls, categories_found, final_data>>
      /\ (pc \in {"discovery", "enrichment"} /\ pc' # pc) =>
           \A i \in DOMAIN PhaseTasks : PhaseTasks[i].pc = "done"
      /\ (pc = "discovery" /\ pc' = "enrichment") =>
           /\ tasks_scrape_details' # <<>>
           /\ \A j \in DOMAIN tasks_scrape_details' :
                tasks_scrape_details'[j].pc = "waiting"
    ]_vars

\* a detail task has failed and another has given its record while a third
\* has not started: the phase goes on
C11_Witness ==
  /\ pc = "enrichment"
  /\ \E j \in DOMAIN tasks_scrape_details :
       tasks_scrape_details[j].pc = "done" /\ tasks_scrape_details[j].details = None
  /\ \E j \in DOMAIN tasks_scrape_details :
       tasks_scrape_details[j].pc = "done" /\ tasks_scrape_details[j].details # None
  /\ \E j \in DOMAIN tasks_scrape_details : tasks_scrape_details[j].pc = "waiting"


\* one of the three listing selectors raises on the page the task received
ListingSelectorRaises(t) ==
  /\ Fetched(t)
  /\ \/ XPathExc(SELECTORS, "categories") # NoExc
     \/ TextContentExc(TreeOf(t).categories) # NoExc
     \/ XPathExc(SELECTORS, "business_urls") # NoExc
     \/ XPathExc(SELECTORS, "page_content") # NoExc
     \/ TextContentExc(TreeOf(t).page_content) # NoExc

\* C12: a listing page on which one of the selectors categories,
\* business_urls, page_content raises gives an empty URL list and no
\* category, whichever selector raised, and the error stays in the task.
C12_AsClaimed ==
  \A i \in DOMAIN tasks_get_urls :
    LET t == tasks_get_urls[i] IN
    (t.pc \in {"done", "raised", "postsleep"} /\ ListingSelectorRaises(t)) =>
       /\ t.pc = "done"
       /\ t.links = <<>>
       /\ t.category = None


\* the task has received an HTTP response (of any status)
Answered(t) == t.resp # None /\ t.resp[1].net = "ok"

StatusOf(t) == t.resp[1].status

\* the task's fetch_and_parse gave None: nothing was extracted
ListingGotNone(t) == t.pc = "done" /\ t.links = <<>> /\ t.category = None

DetailGotNone(t) == t.pc = "done" /\ t.details = None

FailureKind(r) ==
  IF r.net = "ClientError" THEN "network"
  ELSE IF r.net = "TimeoutError" THEN "timeout"
  ELSE IF r.status >= 400 THEN "status"
  ELSE IF r.content = "" THEN "empty"
  ELSE IF r.parsed = None THEN "parse"
  ELSE "none"

FailureKinds == {"network", "timeout", "status", "empty", "parse"}

\* C14: whatever the kind of fetch failure (network error, timeout, bad
\* status, empty body, parse exception), the task gets the same None, ends
\* without raising and has sent exactly one request; no URL, listing page
\* or detail page, is requested more than once in a run.
C14_FailureIsNoneAndNoRetry ==
  /\ \A i \in DOMAIN tasks_get_urls :
       LET t == tasks_get_urls[i] IN
       (t.resp # None /\ FailureKind(t.resp[1]) \in FailureKinds) =>
          ListingGotNone(t) /\ Requested(t.url) = 1
  /\ \A j \in DOMAIN tasks_scrape_details :
       LET t == tasks_scrape_details[j] IN
       (t.resp # None /\ FailureKind(t.resp[1]) \in FailureKinds) =>
          DetailGotNone(t) /\ Requested(t.url) = 1
  /\ \A u \in DOMAIN requests : requests[u] <= 1
  /\ (pc = "returned") =>
       \A u \in DOMAIN requests : requests[u] = 1

\* the run is over; three detail fetches failed in three ways (empty body,
\* unparsable body, connection error) and each URL was requested once
C14_Witness ==
  /\ pc = "returned"
  /\ Len(tasks_scrape_details) = 3
  /\ {FailureKind(tasks_scrape_details[j].resp[1]) : j \in DOMAIN tasks_scrape_details}
       = {"empty", "parse", "network"}
  /\ \A j \in DOMAIN tasks_scrape_details :
       DetailGotNone(tasks_scrape_details[j]) /\ Requested(tasks_scrape_details[j].url) = 1


\* the number of requests sent to the URLs in S
RECURSIVE RequestCount(_)
RequestCount(S) ==
  IF S = {} THEN 0
  ELSE LET u == CHOOSE x \in S : TRUE
       IN  Requested(u) + RequestCount(S \ {u})

\* the detail URLs whose fetch succeeded with a non-empty name
SucceedingUrls ==
  {tasks_scrape_details[j].url : j \in DOMAIN tasks_scrape_details \ FailedTasks}

\* C15: when the listing pages returned R references of which U are
\* distinct, and S of the U detail fetches succeed with a name, a finished
\* run has sent exactly U detail requests (U <= R) and its table has
\* exactly S rows, one per succeeding URL, with pairwise distinct source
\* URLs.
C15_CountsAddUp ==
  RunDone =>
    LET U == Cardinality(all_business_urls)
        S == Cardinality(SucceedingUrls)
    IN  /\ U <= raw_refs
        /\ Len(tasks_scrape_details) = U
        /\ RequestCount(DOMAIN requests \ ListingUrls) = U
        /\ DOMAIN requests \ ListingUrls = all_business_urls
        /\ Len(final_data) = S
        /\ {final_data[k]["Hyperlink"] : k \in DOMAIN final_data} = SucceedingUrls
        /\ \A k, l \in DOMAIN final_data :
             final_data[k]["Hyperlink"] = final_data[l]["Hyperlink"] => k = l

\* R = 5 references, U = 3 distinct URLs, S = 1: one fetch timed out and one
\* page had no name
C15_Witness ==
  /\ RunDone
  /\ raw_refs = 5
  /\ Cardinality(all_business_urls) = 3
  /\ Len(final_data) = 1
  /\ \E j \in DOMAIN tasks_scrape_details : tasks_scrape_details[j].resp = Some(Timeout)
  /\ \E j \in DOMAIN tasks_scrape_details :
       tasks_scrape_details[j].resp = Some(Page(Detail_NoName))


\* the first exception the selectors of get_business_urls_from_page raise
\* on the task's page
ListingFirstExc(t) ==
  FirstExc(<<XPathExc(SELECTORS, "categories"),
             TextContentExc(TreeOf(t).categories),
             XPathExc(SELECTORS, "business_urls"),
             XPathExc(SELECTORS, "page_content"),
             TextContentExc(TreeOf(t).page_content)>>)

\* C16: the first use of a selector key that is absent from the table
\* stops the run with a configuration failure: the KeyError leaves the task
\* (and so the gather) instead of being absorbed as one more page or
\* record without a result.
C16_AsClaimed ==
  /\ \A i \in DOMAIN tasks_get_urls :
       LET t == tasks_get_urls[i] IN
       (Fetched(t) /\ ListingFirstExc(t) = "KeyError") =>
          t.pc = "raised" /\ t.exc = "KeyError"
  /\ \A j \in DOMAIN tasks_scrape_details :
       LET t == tasks_scrape_details[j] IN
       (Fetched(t) /\ DetailsExc(SELECTORS, TreeOf(t)) = "KeyError") =>
          t.pc = "raised" /\ t.exc = "KeyError"


\* C17: when an exception that is not a user interrupt has left
\* run_scraper, the entry point logs it and the process ends with a
\* non-zero exit status.
C17_AsClaimed ==
  (exit_status # None /\ pc = "raised" /\ exception # "KeyboardInterrupt") =>
     /\ "CRITICAL An unhandled error occurred" \in log
     /\ exit_status[1] # 0


\* the selector key behind each non-identity field of a record that is
\* extracted from the page
FieldSelector ==
  ("Contact" :> "contact") @@ ("Email" :> "email") @@ ("Address" :> "address")
  @@ ("Map and direction" :> "map_and_direction") @@ ("Review" :> "review")
  @@ ("Review count" :> "review_count") @@ ("Images" :> "images")
  @@ ("Website" :> "website")

\* C18: in every record scrape_business_details produces, a non-identity
\* field whose selector matches no node of the page is the empty string,
\* the attribute fields 'Map and direction', 'Review', 'Images' and
\* 'Website' included.
C18_AsClaimed ==
  \A j \in DOMAIN tasks_scrape_details :
    LET t == tasks_scrape_details[j] IN
    (t.pc = "done" /\ t.details # None) =>
       \A f \in DOMAIN FieldSelector :
         TreeOf(t)[FieldSelector[f]] = <<>> => t.details[1][f] = <<>>


\* no character of the text is one of \ / * ? : " < > |
Safe(text) == \A k \in DOMAIN text : text[k] \notin UnsafeChars

\* nothing is left of the text once those characters and the surrounding
\* whitespace are taken away
NothingLeft(text) == \A k \in DOMAIN text : text[k] \in UnsafeChars \cup Whitespace

XlsxSuffix == <<".","x","l","s","x">>

\* C19: whatever the category text, the name run_scraper derives from it is
\* not empty and holds none of the characters \ / * ? : " < > |, it is
\* 'General_Scrape' when removal and trimming leave nothing, and the file
\* that is written is that name with the .xlsx suffix.
C19_ArtifactNameSafe ==
  /\ tasks_scrape_details # <<>> =>
       /\ sanitized_category # <<>>
       /\ Safe(sanitized_category)
       /\ NothingLeft(category_name) => sanitized_category = GeneralScrape
  /\ \A f \in files :
       /\ f = sanitized_category \o XlsxSuffix
       /\ Len(f) > Len(XlsxSuffix)
       /\ Safe(f)

\* a category of unsafe characters only: the file is General_Scrape.xlsx
C19_Witness ==
  /\ category_name # <<>>
  /\ \A k \in DOMAIN category_name : category_name[k] \in UnsafeChars
  /\ files = {GeneralScrape \o XlsxSuffix}


\* the step sends a request for the task's URL
Sends(t) ==
  (IF t.url \in DOMAIN requests' THEN requests'[t.url] ELSE 0) > Requested(t.url)

\* C20: in both asynchronous variants every request of fetch_and_parse is
\* sent by a task that has just completed its randomized delay; no request
\* goes out without a delay before it.
C20_AsClaimed ==
  [][ /\ \A i \in DOMAIN tasks_get_urls :
           Sends(tasks_get_urls[i]) => tasks_get_urls[i].pc = "delay"
      /\ \A j \in DOMAIN tasks_scrape_details :
           Sends(tasks_scrape_details[j]) => tasks_scrape_details[j].pc = "delay"
    ]_vars


\* user-agents.txt is missing, unreadable, or has no non-empty line
PoolUnavailable ==
  \/ ua_file.state \in {"missing", "unreadable"}
  \/ \A k \in DOMAIN ua_file.lines : ua_file.lines[k] = ""

\* the task is past the point where fetch_and_parse builds its headers
PastHeaders(t) == t.pc \notin {"waiting", "delay"}

\* C21: with the identity pool missing, unreadable or without a non-empty
\* line, userAgents gives the fixed default identity and raises nothing:
\* every fetch that got to its headers has sent its request, with the
\* default identity, and no task has ended on an exception.
C21_DefaultIdentity ==
  /\ \A i \in DOMAIN tasks_get_urls :
       LET t == tasks_get_urls[i] IN
       PastHeaders(t) => Requested(t.url) = 1 /\ t.pc # "raised"
  /\ \A j \in DOMAIN tasks_scrape_details :
       LET t == tasks_scrape_details[j] IN
       PastHeaders(t) => Requested(t.url) = 1 /\ t.pc # "raised"
  /\ PoolUnavailable =>
       /\ userAgents(ua_file) = {[exc |-> NoExc, agent |-> DefaultAgent]}
       /\ headers \subseteq {DefaultAgent}
  /\ headers # {} <=> DOMAIN requests # {}

\* the pool holds one empty line only; a listing page was requested with
\* the default identity and gave its links
C21_Witness ==
  /\ ua_file = PoolFile("ok", <<"">>)
  /\ headers = {DefaultAgent}
  /\ \E i \in DOMAIN tasks_get_urls :
       tasks_get_urls[i].pc = "done" /\ tasks_get_urls[i].links # <<>>


\* C22 as stated: a task that holds its slot is suspended in the
\* pre-request delay or in the request, nowhere else.
C22_AsClaimed ==
  /\ \A i \in DOMAIN tasks_get_urls :
       Holding(tasks_get_urls[i]) => tasks_get_urls[i].pc \in {"delay", "request"}
  /\ \A j \in DOMAIN tasks_scrape_details :
       Holding(tasks_scrape_details[j]) =>
          tasks_scrape_details[j].pc \in {"delay", "request"}

\* the step takes the task from t to u into the sleep that follows the
\* extraction: it comes from the response, and the slot is kept
EntersSleep(t, u) ==
  (u.pc = "postsleep" /\ t.pc # "postsleep") =>
     /\ t.pc = "request"
     /\ Fetched(u)
     /\ semaphore' = semaphore

\* the step wakes the task from that sleep: it returns and frees the slot
LeavesSleep(t, u) ==
  (t.pc = "postsleep" /\ u.pc # "postsleep") =>
     /\ u.pc = "done"
     /\ semaphore' = semaphore + 1

\* C22 (amended): besides waiting for its slot, a task is suspended at
\* three points, all inside the guarded section: the pre-request delay, the
\* request, and a randomized sleep after the extraction. The third is
\* entered when the page was fetched and extracted without a selector
\* error or a no-results match, and the task keeps its slot until it wakes.
C22_SuspensionPoints ==
  /\ [](\A i \in DOMAIN tasks_get_urls :
          /\ tasks_get_urls[i].pc \in {"waiting", "delay", "request", "postsleep", "done"}
          /\ tasks_get_urls[i].pc = "postsleep" =>
               /\ ListingFirstExc(tasks_get_urls[i]) = NoExc
               /\ ~NoResultsMatch(PageContent(TreeOf(tasks_get_urls[i]))))
  /\ [](\A j \in DOMAIN tasks_scrape_details :
          /\ tasks_scrape_details[j].pc \in {"waiting", "delay", "request", "postsleep", "done"}
          /\ tasks_scrape_details[j].pc = "postsleep" =>
               DetailsExc(SELECTORS, TreeOf(tasks_scrape_details[j])) = NoExc)
  /\ [][ /\ \A i \in DOMAIN tasks_get_urls \cap DOMAIN tasks_get_urls' :
              /\ EntersSleep(tasks_get_urls[i], tasks_get_urls'[i])
              /\ LeavesSleep(tasks_get_urls[i], tasks_get_urls'[i])
         /\ (pc = "enrichment") =>
              \A j \in DOMAIN tasks_scrape_details :
                /\ EntersSleep(tasks_scrape_details[j], tasks_scrape_details'[j])
                /\ LeavesSleep(tasks_scrape_details[j], tasks_scrape_details'[j])
       ]_vars

\* both slots are held by tasks asleep after their extraction while a
\* third task waits for a slot
C22_Witness ==
  /\ semaphore = 0
  /\ \E j, k, l \in DOMAIN tasks_scrape_details :
       /\ j # k
       /\ tasks_scrape_details[j].pc = "postsleep"
       /\ tasks_scrape_details[k].pc = "postsleep"
       /\ tasks_scrape_details[l].pc = "waiting"


\* every task of the list has got its slot, finished and given it back
AllCompleted(tasks) ==
  /\ tasks # <<>>
  /\ \A i \in DOMAIN tasks : tasks[i].pc = "done" /\ Requested(tasks[i].url) = 1

\* C23: under a fair scheduler, with fetches that return or time out, for
\* every semaphore size from 1 to MaxLimit and NumPages listing pages: all
\* listing tasks eventually get a slot and complete, the discovery phase
\* ends, all detail tasks (if any) eventually get a slot and complete, and
\* the run returns.
C23_EveryTaskCompletes ==
  /\ <>AllCompleted(tasks_get_urls)
  /\ <>(pc # "discovery")
  /\ (pc = "enrichment") ~> (pc = "enrichment" /\ AllCompleted(tasks_scrape_details))
  /\ <>[](pc = "returned")

\* one permit, three detail tasks: one has finished, one is in its fetch,
\* one still waits for the slot
C23_Witness ==
  /\ semaphore = 0
  /\ Cardinality(Holders(tasks_scrape_details)) = 1
  /\ \E j, k \in DOMAIN tasks_scrape_details :
       /\ tasks_scrape_details[j].pc = "done"
       /\ tasks_scrape_details[k].pc = "waiting"


\* what get_business_urls_from_page returns on a response, as a function of
\* the response alone
ListingOf(r) ==
  LET f == fetch_and_parse(r) IN
  IF f.tree = None THEN [links |-> <<>>, category |-> None]
  ELSE [links    |-> ExtractListing(SELECTORS, f.tree[1]).links,
        category |-> ExtractListing(SELECTORS, f.tree[1]).category]

\* what scrape_business_details returns on a response for a URL
DetailOf(r, url) ==
  LET f == fetch_and_parse(r) IN
  IF f.tree = None THEN None
  ELSE ReturnDetails(ExtractDetails(SELECTORS, f.tree[1], url).details)

\* the outcome of the discovery phase computed from the pages' responses,
\* page by page
ExpectedUrls ==
  UNION {Range(ListingOf(tasks_get_urls[i].resp[1]).links) : i \in DOMAIN tasks_get_urls}

CategoryPagesInOrder ==
  {i \in DOMAIN tasks_get_urls :
     LET c == ListingOf(tasks_get_urls[i].resp[1]).category IN
     c # None /\ c[1] # <<>>}

ExpectedCategory ==
  IF CategoryPagesInOrder = {} THEN UnknownCategory
  ELSE LET first == CHOOSE i \in CategoryPagesInOrder :
                      \A k \in CategoryPagesInOrder : i <= k
       IN  ListingOf(tasks_get_urls[first].resp[1]).category[1]

\* the records computed from the detail pages' responses
ExpectedRecords ==
  {DetailOf(tasks_scrape_details[j].resp[1], tasks_scrape_details[j].url)[1] :
     j \in {k \in DOMAIN tasks_scrape_details :
              DetailOf(tasks_scrape_details[k].resp[1],
                       tasks_scrape_details[k].url) # None}}

\* C24: the merged URL set, the chosen category and the set of exported
\* records are functions of the pages' responses alone (URLs: the union
\* over the pages; category: the first one in page order; records: one per
\* detail page with a name), so they are the same in every interleaving
\* and completion order of the tasks.
C24_OrderIndependent ==
  /\ [][(pc = "discovery" /\ pc' \in {"enrichment", "returned"}) =>
          /\ all_business_urls' = ExpectedUrls
          /\ pc' = "enrichment" =>
               /\ category_name' = ExpectedCategory
               /\ Range([j \in DOMAIN tasks_scrape_details' |->
                           tasks_scrape_details'[j].url]) = ExpectedUrls
               /\ Len(tasks_scrape_details') = Cardinality(ExpectedUrls)
       ]_vars
  /\ [](RunDone => Range(final_data) = ExpectedRecords)

\* two categories were found and the first in page order chosen; the last
\* detail task has finished with a record before the first one has started
C24_Witness ==
  /\ pc = "enrichment"
  /\ Len(categories_found) >= 2
  /\ Len(tasks_scrape_details) >= 2
  /\ tasks_scrape_details[1].pc = "waiting"
  /\ tasks_scrape_details[Len(tasks_scrape_details)].pc = "done"
  /\ tasks_scrape_details[Len(tasks_scrape_details)].details # None


\* a task of the list has not returned yet
SomeRunning(tasks) == \E i \in DOMAIN tasks : tasks[i].pc # "done"

\* C25: while a task of the current phase has not returned, the merged URL
\* set and the category list stay as they are; they change only in the
\* step run_scraper takes after the listing gather has returned, with every
\* listing task finished, and no step of a listing or detail task writes
\* them.
C25_MergedOnlyAfterGather ==
  [][ /\ (SomeRunning(tasks_get_urls) \/ SomeRunning(tasks_scrape_details)) =>
           UNCHANGED <<all_business_urls, categories_found>>
      /\ (all_business_urls' # all_business_urls
            \/ categories_found' # categories_found) =>
           /\ pc = "discovery" /\ pc' # "discovery"
           /\ \A i \in DOMAIN tasks_get_urls : tasks_get_urls[i].pc = "done"
      /\ ((tasks_get_urls' # tasks_get_urls /\ tasks_get_urls' # <<>>)
            \/ (pc = "enrichment" /\ tasks_scrape_details' # tasks_scrape_details)) =>
           UNCHANGED <<all_business_urls, categories_found, category_name>>
    ]_vars

\* one listing task has returned links and a category while another has
\* not started; nothing has been merged yet
C25_Witness ==
  /\ pc = "discovery"
  /\ all_business_urls = {} /\ categories_found = <<>>
  /\ \E i \in DOMAIN tasks_get_urls :
       /\ tasks_get_urls[i].pc = "done"
       /\ tasks_get_urls[i].links # <<>>
       /\ tasks_get_urls[i].category # None
  /\ \E i \in DOMAIN tasks_get_urls : tasks_get_urls[i].pc = "waiting"


\* C26: free permits plus tasks inside the guarded section always make
\* CONCURRENT_REQUEST_LIMIT; a task that has returned, by whatever path,
\* holds none; when a phase ends and when the run has returned all permits
\* are free; a task stalled in its fetch holds one permit, and while it is
\* the only holder the other permits are free for a waiting task.
C26_PermitsConserved ==
  /\ [](semaphore + InFlight = CONCURRENT_REQUEST_LIMIT)
  /\ []((pc = "returned") => semaphore = CONCURRENT_REQUEST_LIMIT)
  /\ [][(pc # pc') => semaphore = CONCURRENT_REQUEST_LIMIT /\ semaphore' = semaphore]_vars
  /\ [](\A j \in DOMAIN tasks_scrape_details :
          (tasks_scrape_details[j].pc = "request"
             /\ Holders(tasks_scrape_details) = {j}) =>
            /\ semaphore = CONCURRENT_REQUEST_LIMIT - 1
            /\ CanAcquire(semaphore))

\* a detail task is stalled in its fetch; through the other permit one task
\* has failed its fetch and one has returned a record, and that permit is
\* free again
C26_Witness ==
  /\ semaphore = CONCURRENT_REQUEST_LIMIT - 1
  /\ \E j, k, l \in DOMAIN tasks_scrape_details :
       /\ tasks_scrape_details[j].pc = "request"
       /\ tasks_scrape_details[k].pc = "done" /\ tasks_scrape_details[k].details = None
       /\ tasks_scrape_details[l].pc = "done" /\ tasks_scrape_details[l].details # None


\* the absolute URL a reference denotes
Normalized(ref) == IF ref \in AbsoluteRefs THEN ref ELSE Origin \o ref

\* the string references the URL selector yields on the task's page
StringRefs(t) ==
  LET strs == SelectSeq(TreeOf(t).business_urls, LAMBDA n : n.isstr)
  IN  [k \in 1..Len(strs) |-> strs[k].s]

\* C27: the URLs a listing task returns are the references of its page made
\* absolute: the origin is put before a relative reference and a reference
\* that is absolute already is left as it is, so that references to the
\* same page give one URL in the merged set.
C27_AsClaimed ==
  /\ \A i \in DOMAIN tasks_get_urls :
       LET t == tasks_get_urls[i] IN
       (Fetched(t) /\ t.links # <<>>) =>
          t.links = [k \in 1..Len(StringRefs(t)) |-> Normalized(StringRefs(t)[k])]
  /\ (Origin \o "/a") \in all_business_urls =>
       (Origin \o Origin \o "/a") \notin all_business_urls


\* the run was interrupted before the export step was reached
InterruptedBeforeExport == exception = "KeyboardInterrupt" /\ final_data = <<>>

\* C28: an interrupt that arrives during discovery, during enrichment or
\* during the export ends the run through the KeyboardInterrupt clause of the
\* entry point: the interruption is logged, nothing is logged as unhandled
\* and the process ends with status 0; an interrupt that arrives before the
\* export step leaves the output directory uncreated and no file written.
C28_InterruptLogged ==
  /\ (exit_status # None /\ exception = "KeyboardInterrupt") =>
       /\ "INFO Scraping interrupted by user" \in log
       /\ "CRITICAL An unhandled error occurred" \notin log
       /\ exit_status = Some(0)
  /\ InterruptedBeforeExport => files = {} /\ ~dir_created

\* interrupted during enrichment, after detail requests were sent
C28_Witness ==
  /\ exit_status # None
  /\ InterruptedBeforeExport
  /\ all_business_urls # {}
  /\ \E u \in all_business_urls : Requested(u) = 1
  /\ "INFO Scraping interrupted by user" \in log

\* interrupted during the export step
C28_WitnessExport ==
  /\ exit_status # None
  /\ exception = "KeyboardInterrupt"
  /\ final_data # <<>>


\* C29: when the export step fails (the directory cannot be created, the
\* spreadsheet engine is missing, the write fails) the failure is logged and
\* run_scraper returns without an exception; no file exists, and the entry
\* point ends as after a successful run, with status 0 and nothing logged as
\* unhandled.
C29_ExportFailureCaught ==
  /\ (final_data # <<>> /\ exception # "KeyboardInterrupt") =>
       /\ pc = "returned"
       /\ exception = NoExc
       /\ files = {} => "ERROR Failed to save" \in log
  /\ "ERROR Failed to save" \in log =>
       /\ files = {}
       /\ final_data # <<>>
       /\ exit_status # None =>
            /\ exit_status = Some(0)
            /\ "CRITICAL An unhandled error occurred" \notin log

\* the export failed after records were collected and the script has ended
C29_Witness ==
  /\ exit_status # None
  /\ final_data # <<>>
  /\ files = {}
  /\ dir_created
  /\ "ERROR Failed to save" \in log


\* the five column lists of scrape_yellow_pages
Columns ==
  <<scrape_yellow_pages.business_names, scrape_yellow_pages.phone_numbers,
    scrape_yellow_pages.addresses, scrape_yellow_pages.websites,
    scrape_yellow_pages.emails>>

\* C30 as claimed: between page iterations and after the loop the five
\* column lists have the same length, and building the table does not
\* raise.
C30_AsClaimed ==
  /\ scrape_yellow_pages.at \in {"page", "returned", "raised"} =>
       \A i, j \in 1..5 : Len(Columns[i]) = Len(Columns[j])
  /\ scrape_yellow_pages.at # "raised"


\* C31 as claimed: parse_listing gives up after a failed attempt (an
\* exception, or a status other than 200) only when it has made 10
\* requests.
C31_AsClaimed ==
  (parse_listing.at = "returned" /\ parse_listing.failed) =>
    parse_listing.gets = Attempts

====
